---- MODULE Spec2Model ----
(***************************************************************************)
(* Offline sync queue, persistent store and backup/restore of the expense  *)
(* tracker: SyncManager (sync.ts), ExpenseDatabase (database.ts) and       *)
(* BackupManager (backup.ts), as a state machine whose steps are the       *)
(* synchronous stretches between two awaits of the single-threaded event   *)
(* loop.                                                                   *)
(***************************************************************************)
EXTENDS Integers, Sequences, FiniteSets, TLC

\* ---------------------------------------------------------------- bounds
\* Queue entries ever created: the auto-increment key of syncQueue runs 1..MaxSyncId.
MaxSyncId == 2
\* Queue entries created in the specifications that add destroy(), clearAllData()
\* or the store's own operations to the drain.
MaxFewId == 1
\* Wall-clock readings (new Date()) are drawn from 0..MaxTime; the wall clock
\* is not monotonic, so a later entry may carry a smaller timestamp.
MaxTime == 1
\* processQueue invocations that can be suspended at an await at the same time.
MaxPasses == 2
\* setTimeout callbacks that can be pending at the same time.
MaxTimers == 1
\* Calls of the store and of the backup manager in one behaviour.
MaxCalls == 3
\* Calls of clearAllData() next to the drain.
MaxClears == 1
MaxFewCalls == 1

\* ------------------------------------------------------ program constants
maxRetries == 3
retryDelay == 5000
enqueueDelay == 1000
\* History counters saturate at the retry ceiling: no claim counts beyond it.
MaxCount == maxRetries

Operations == {"create", "update", "delete"}
EntityTypes == {"expense", "category", "media"}
SyncIds == 1..MaxSyncId
Slots == 1..MaxPasses
Timestamps == 0..MaxTime

\* Messages of the errors a delivery can reject with.
NotFoundError == "Expense not found"
StorageError == "storage error"
NoError == ""

VARIABLES
  online,         \* navigator.onLine
  isProcessing,   \* SyncManager.isProcessing
  syncInterval,   \* SyncManager.syncInterval is set (the 30 s timer runs)
  timers,         \* pending setTimeout callbacks: delay -> how many
  pass,           \* the suspended processQueue invocations, by slot
  syncQueue,      \* table syncQueue: id -> entry
  nextSyncId,     \* key generator of syncQueue
  expenses,       \* table expenses: id -> record
  nextExpenseId,  \* key generator of expenses
  failures,       \* history: deliveries failed, per entry id
  reported,       \* history: times an entry was in the errors of syncCompleted
  removal,        \* history: how an entry left the queue, per entry id
  categories,     \* table categories: id -> record
  nextCategoryId, \* key generator of categories
  mediaFiles,     \* table mediaFiles: id -> record
  nextMediaId,    \* key generator of mediaFiles
  settings,       \* table settings: id -> record
  nextSettingId,  \* key generator of settings
  op,             \* the ExpenseDatabase / BackupManager call in flight
  tally,          \* history: calls made, expense writes resolved, entries
                  \* the store appended, calls that returned
  done,           \* history: the call that ended last, and how
  snapshot,       \* the BackupData createBackup returned last
  pre,            \* history: the tables when restoreBackup was called
  retry,          \* the retryFailedItems call in flight
  localBackups,   \* side store (idb-keyval): the 'auto-backup-<day>' keys, by day
  auto,           \* the createAutoBackup call in flight
  export,         \* the exportBackup call in flight or ended last: its
                  \* argument and the file it wrote
  setting,        \* the setSetting calls in flight, and per key the value of
                  \* the setSetting that completed last
  instants,       \* history: the contents the Store had, one after the other,
                  \* while mutating calls ran beside a createBackup in flight
  backupCall,     \* the last encryptBackup / decryptBackup / importBackup call:
                  \* its arguments, the envelope at hand and the outcome
  settled         \* what the step just taken settled: the promise of a
                  \* SyncManager call that resolved or rejected, if any

syncVars == <<online, isProcessing, syncInterval, timers, pass>>
queueVars == <<syncQueue, nextSyncId>>
expenseVars == <<expenses, nextExpenseId>>
histVars == <<failures, reported, removal>>
tableVars == <<categories, nextCategoryId, mediaFiles, nextMediaId, settings, nextSettingId>>
callVars == <<op, tally, done, snapshot, pre>>
storeVars == <<tableVars, callVars>>
sideVars == <<localBackups, auto, export, instants, setting>>
managerVars == <<retry, settled, backupCall, sideVars>>
vars == <<syncVars, queueVars, expenseVars, histVars, storeVars, managerVars>>

\* ---------------------------------------------------------------- helpers
Min(a, b) == IF a < b THEN a ELSE b
Bump(n) == Min(n + 1, MaxCount)

RECURSIVE Pow2(_)
Pow2(n) == IF n = 0 THEN 1 ELSE 2 * Pow2(n - 1)

\* The delays a setTimeout of the subsystem can carry.
Delays == {enqueueDelay} \cup {retryDelay * Pow2(r) : r \in 0..(maxRetries - 1)}
PendingTimers == LET RECURSIVE Sum(_)
                     Sum(S) == IF S = {} THEN 0
                               ELSE LET d == CHOOSE x \in S : TRUE
                                    IN timers[d] + Sum(S \ {d})
                 IN Sum(Delays)

NoItem == [id |-> 0, operation |-> "create", entityType |-> "expense", entityId |-> 0,
           timestamp |-> 0, retryCount |-> 0, lastError |-> NoError]
IdlePass == [pc |-> "idle", todo |-> <<>>, cur |-> NoItem, log |-> <<>>,
             errors |-> <<>>, err |-> NoError, rd |-> 0]

\* No promise of a SyncManager call settled in the step.
NoSettle == [call |-> "none", result |-> "none", error |-> NoError]
Resolved(call) == [call |-> call, result |-> "resolved", error |-> NoError]
Rejected(call, msg) == [call |-> call, result |-> "rejected", error |-> msg]
\* The call started a pass and now awaits it: it settles when the pass ends.
Awaiting(call) == [call |-> call, result |-> "pending", error |-> NoError]
Quiet == settled' = NoSettle

OfflineSyncError == "Cannot sync while offline"
OfflineRetryError == "Cannot retry while offline"

IdleRetry == [pc |-> "idle", items |-> <<>>]

\* Removal of a key from a table.
Without(table, id) == [k \in (DOMAIN table) \ {id} |-> table[k]]
\* Insertion of a record under a key.
With(table, id, rec) == [k \in (DOMAIN table) \cup {id} |-> IF k = id THEN rec ELSE table[k]]
EmptyTable == [k \in {} |-> NoItem]
NoExpenses == [k \in {} |-> [syncStatus |-> "pending", receipt |-> 0]]

\* ------------------------------------------------------ ExpenseDatabase
\* Index order of syncQueue.orderBy('timestamp'): by key, then by primary key.
Before(q, i, j) == \/ q[i].timestamp < q[j].timestamp
                   \/ q[i].timestamp = q[j].timestamp /\ i <= j

RECURSIVE OrderBy(_, _)
OrderBy(q, ids) ==
  IF ids = {} THEN <<>>
  ELSE LET m == CHOOSE i \in ids : \A j \in ids : Before(q, i, j)
       IN <<q[m]>> \o OrderBy(q, ids \ {m})

RECURSIVE ByPrimaryKey(_, _)
ByPrimaryKey(q, ids) ==
  IF ids = {} THEN <<>>
  ELSE LET m == CHOOSE i \in ids : \A j \in ids : i <= j
       IN <<q[m]>> \o ByPrimaryKey(q, ids \ {m})

\* A fetch that forgets the index: syncQueue.toArray(), in primary-key order.
getPendingSyncItems_toArray(q) == ByPrimaryKey(q, DOMAIN q)

getPendingSyncItems(q) == OrderBy(q, DOMAIN q)

\* A completion that deletes the entry and every entry enqueued after it.
markSyncItemCompleted_through(q, id) == [k \in {j \in DOMAIN q : j < id} |-> q[k]]

markSyncItemCompleted(q, id) == Without(q, id)

\* History: the entries of ids that are in the queue leave it for `why`.
Removed(ids, why) ==
  [i \in SyncIds |-> IF i \in ids /\ i \in DOMAIN syncQueue /\ i \notin DOMAIN syncQueue'
                     THEN why ELSE removal[i]]

\* The value the expression `stored?.retryCount || 0 + 1` yields: `+` binds
\* tighter than `||`, so it is stored || 1. rd is the stored retryCount, or
\* -1 for undefined (the entry is gone).
RetryCountExpr(rd) == IF rd = -1 \/ rd = 0 THEN 1 ELSE rd

\* The read of markSyncItemFailed: (await this.syncQueue.get(id))?.retryCount
ReadRetryCount(q, id) == IF id \in DOMAIN q THEN q[id].retryCount ELSE -1

\* A write that drops the entry instead of updating it.
markSyncItemFailedWrite_delete(q, id, rd, error) == Without(q, id)

\* A write that puts the entry back when its key is missing.
markSyncItemFailedWrite_put(q, id, rd, error) ==
  With(q, id, [(IF id \in DOMAIN q THEN q[id] ELSE [NoItem EXCEPT !.id = id])
                 EXCEPT !.retryCount = RetryCountExpr(rd), !.lastError = error])

\* The write of markSyncItemFailed; Table.update of a missing key changes nothing.
markSyncItemFailedWrite(q, id, rd, error) ==
  IF id \in DOMAIN q
  THEN [q EXCEPT ![id].retryCount = RetryCountExpr(rd), ![id].lastError = error]
  ELSE q

\* ---------------------------------------------------------- SyncManager
IdleSlots == {p \in Slots : pass[p].pc = "idle"}
ActivePasses == {p \in Slots : pass[p].pc # "idle"}

\* A processQueue() that does not look at navigator.onLine.
ProcessQueue_anyNetwork(on) ==
  IF isProcessing
  THEN UNCHANGED <<isProcessing, pass>>
  ELSE /\ IdleSlots # {}
       /\ LET p == CHOOSE s \in IdleSlots : \A t \in IdleSlots : s <= t
          IN pass' = [pass EXCEPT ![p] = [IdlePass EXCEPT !.pc = "fetch"]]
       /\ isProcessing' = TRUE

\* processQueue() up to its first await, called with navigator.onLine = on.
ProcessQueue(on) ==
  IF isProcessing \/ ~on
  THEN UNCHANGED <<isProcessing, pass>>
  ELSE /\ IdleSlots # {}
       /\ LET p == CHOOSE s \in IdleSlots : \A t \in IdleSlots : s <= t
          IN pass' = [pass EXCEPT ![p] = [IdlePass EXCEPT !.pc = "fetch"]]
       /\ isProcessing' = TRUE

\* A pass that ends early without its finally block.
Finish_holding(p, completed) ==
  /\ UNCHANGED <<isProcessing, reported>>
  /\ pass' = [pass EXCEPT ![p] = IdlePass]

\* The finally block of processQueue, after syncCompleted or syncError.
Finish(p, completed) ==
  /\ isProcessing' = FALSE
  /\ pass' = [pass EXCEPT ![p] = IdlePass]
  /\ reported' = IF completed
                 THEN [i \in SyncIds |->
                        IF \E k \in 1..Len(pass[p].errors) : pass[p].errors[k] = i
                        THEN Bump(reported[i]) ELSE reported[i]]
                 ELSE reported

\* The for-of loop moves to its next item, or the pass ends.
NextItem(p, errs) ==
  IF pass[p].todo = <<>>
  THEN /\ isProcessing' = FALSE
       /\ pass' = [pass EXCEPT ![p] = IdlePass]
       /\ reported' = [i \in SyncIds |->
                        IF \E k \in 1..Len(errs) : errs[k] = i
                        THEN Bump(reported[i]) ELSE reported[i]]
  ELSE /\ pass' = [pass EXCEPT ![p].pc = "deliver",
                               ![p].cur = Head(pass[p].todo),
                               ![p].todo = Tail(pass[p].todo),
                               ![p].errors = errs,
                               ![p].err = NoError,
                               ![p].rd = 0]
       /\ UNCHANGED <<isProcessing, reported>>

\* const pendingItems = await db.getPendingSyncItems()
Fetch(p, oks) ==
  /\ \E ok \in oks :
       IF ~ok THEN Finish(p, FALSE)
       ELSE LET items == getPendingSyncItems(syncQueue)
            IN IF items = <<>> THEN Finish(p, TRUE)
               ELSE /\ pass' = [pass EXCEPT ![p].pc = "deliver",
                                            ![p].cur = Head(items),
                                            ![p].todo = Tail(items)]
                    /\ UNCHANGED <<isProcessing, reported>>
  /\ UNCHANGED <<online, syncInterval, timers, queueVars, expenseVars,
                 failures, removal>>

\* What processSyncItem(item) can end with: "ok", or the message it rejects with.
DeliveryOutcomes(item, oks) ==
  (IF FALSE \in oks THEN {StorageError} ELSE {}) \cup
  (IF item.entityType = "expense" /\ item.entityId \notin DOMAIN expenses
   THEN {NotFoundError} ELSE {"ok"})

\* The catch of a failed delivery, up to its first await.
OnFailure(p, msg) ==
  IF pass[p].cur.retryCount < maxRetries
  THEN pass' = [pass EXCEPT ![p].pc = "failread", ![p].err = msg,
                            ![p].log = Append(pass[p].log, pass[p].cur.timestamp)]
  ELSE pass' = [pass EXCEPT ![p].pc = "abandon", ![p].err = msg,
                            ![p].errors = Append(pass[p].errors, pass[p].cur.id),
                            ![p].log = Append(pass[p].log, pass[p].cur.timestamp)]

\* await this.processSyncItem(item)
Deliver(p, oks) ==
  LET item == pass[p].cur IN
  /\ \E out \in DeliveryOutcomes(item, oks) :
       IF out = "ok"
          THEN /\ pass' = [pass EXCEPT ![p].pc = "complete",
                                       ![p].log = Append(pass[p].log, item.timestamp)]
               /\ expenses' = IF item.entityType = "expense" /\ item.operation # "delete"
                              THEN [expenses EXCEPT ![item.entityId].syncStatus = "synced"]
                              ELSE expenses
               /\ UNCHANGED failures
          ELSE /\ OnFailure(p, out)
               /\ failures' = [failures EXCEPT ![item.id] = Bump(@)]
               /\ UNCHANGED expenses
  /\ UNCHANGED <<online, isProcessing, syncInterval, timers, queueVars, nextExpenseId,
                 reported, removal>>

\* setTimeout(callback, delay)
SetTimeout(d) == /\ PendingTimers < MaxTimers
                 /\ timers' = [timers EXCEPT ![d] = @ + 1]

\* A pass that rethrows the error of its last delivery.
PassSettles_rethrow(ps) ==
  IF ps.err # NoError THEN Rejected("processQueue", ps.err) ELSE Resolved("processQueue")

\* How the promise of processQueue settles when the pass ps ends: the outer
\* try / catch / finally absorbs every error, the last delivery's included.
PassSettles(ps) == Resolved("processQueue")

\* The pass resumes after the await it is suspended at; oks are the outcomes
\* the storage requests of the step can have (TRUE: resolves, FALSE: rejects).
PassStep(p, oks) ==
  LET item == pass[p].cur IN
  /\ pass[p].pc # "idle"
  /\ CASE pass[p].pc = "fetch" -> Fetch(p, oks)
       [] pass[p].pc = "deliver" -> Deliver(p, oks)
       [] pass[p].pc = "complete" ->
            \* await db.markSyncItemCompleted(item.id), inside the try
            /\ \E ok \in oks :
                 IF ok
                 THEN /\ syncQueue' = markSyncItemCompleted(syncQueue, item.id)
                      /\ removal' = Removed({item.id}, "delivered")
                      /\ NextItem(p, pass[p].errors)
                 ELSE /\ OnFailure(p, StorageError)
                      /\ UNCHANGED <<syncQueue, isProcessing, reported, removal>>
            /\ UNCHANGED <<online, syncInterval, timers, nextSyncId, expenseVars, failures>>
       [] pass[p].pc = "failread" ->
            \* (await this.syncQueue.get(id))?.retryCount
            /\ \E ok \in oks :
                 IF ok
                 THEN /\ pass' = [pass EXCEPT ![p].pc = "failwrite",
                                              ![p].rd = ReadRetryCount(syncQueue, item.id)]
                      /\ UNCHANGED <<isProcessing, reported>>
                 ELSE Finish(p, FALSE)
            /\ UNCHANGED <<online, syncInterval, timers, queueVars, expenseVars,
                           failures, removal>>
       [] pass[p].pc = "failwrite" ->
            \* await this.syncQueue.update(id, {retryCount, lastError}); setTimeout
            /\ \E ok \in oks :
                 IF ok
                 THEN /\ syncQueue' = markSyncItemFailedWrite(syncQueue, item.id,
                                                              pass[p].rd, pass[p].err)
                      /\ removal' = Removed({item.id}, "none")
                      /\ SetTimeout(retryDelay * Pow2(item.retryCount))
                      /\ NextItem(p, pass[p].errors)
                 ELSE /\ Finish(p, FALSE)
                      /\ UNCHANGED <<syncQueue, timers, removal>>
            /\ UNCHANGED <<online, syncInterval, nextSyncId, expenseVars, failures>>
       [] pass[p].pc = "abandon" ->
            \* await db.markSyncItemCompleted(item.id), max retries reached
            /\ \E ok \in oks :
                 IF ok
                 THEN /\ syncQueue' = markSyncItemCompleted(syncQueue, item.id)
                      /\ removal' = Removed({item.id}, "abandoned")
                      /\ NextItem(p, pass[p].errors)
                 ELSE /\ Finish(p, FALSE)
                      /\ UNCHANGED <<syncQueue, removal>>
            /\ UNCHANGED <<online, syncInterval, timers, nextSyncId, expenseVars, failures>>
  /\ settled' = IF pass'[p].pc = "idle" THEN PassSettles(pass[p]) ELSE NoSettle
  /\ UNCHANGED <<storeVars, retry, backupCall, sideVars>>

\* window 'online': handleOnlineStatus(true)
GoOnline ==
  /\ ~online
  /\ online' = TRUE
  /\ syncInterval' = TRUE
  /\ ProcessQueue(TRUE)
  /\ UNCHANGED <<timers, queueVars, expenseVars, histVars>>
  /\ UNCHANGED <<storeVars, retry, backupCall, sideVars>>
  /\ Quiet

\* window 'offline': handleOnlineStatus(false)
GoOffline ==
  /\ online
  /\ online' = FALSE
  /\ syncInterval' = FALSE
  /\ UNCHANGED <<isProcessing, timers, pass, queueVars, expenseVars, histVars>>
  /\ UNCHANGED <<storeVars, retry, backupCall, sideVars>>
  /\ Quiet

\* pwaService 'appVisible'
AppVisible ==
  /\ IF online THEN ProcessQueue(online) ELSE UNCHANGED <<isProcessing, pass>>
  /\ UNCHANGED <<online, syncInterval, timers, queueVars, expenseVars, histVars>>
  /\ UNCHANGED <<storeVars, retry, backupCall, sideVars>>
  /\ Quiet

\* The callback of setInterval(..., 30000)
PeriodicSync ==
  /\ syncInterval
  /\ IF online /\ ~isProcessing THEN ProcessQueue(online)
     ELSE UNCHANGED <<isProcessing, pass>>
  /\ UNCHANGED <<online, syncInterval, timers, queueVars, expenseVars, histVars>>
  /\ UNCHANGED <<storeVars, retry, backupCall, sideVars>>
  /\ Quiet

\* A setTimeout callback runs: the delayed trigger of addToQueue calls
\* processQueue, a backoff callback calls it if navigator.onLine.
TimerFires(d) ==
  /\ timers[d] > 0
  /\ timers' = [timers EXCEPT ![d] = @ - 1]
  /\ IF d = enqueueDelay \/ online THEN ProcessQueue(online)
     ELSE UNCHANGED <<isProcessing, pass>>
  /\ UNCHANGED <<online, syncInterval, queueVars, expenseVars, histVars>>
  /\ UNCHANGED <<storeVars, retry, backupCall, sideVars>>
  /\ Quiet

\* A forcSync() that, offline, queues itself for later instead of rejecting.
ForcSync_deferring ==
  /\ IF ~online THEN /\ UNCHANGED <<isProcessing, pass>>
                     /\ SetTimeout(enqueueDelay)
                     /\ settled' = Resolved("forcSync")
     ELSE /\ ProcessQueue(online)
          /\ UNCHANGED timers
          /\ settled' = IF isProcessing THEN Resolved("forcSync") ELSE Awaiting("forcSync")
  /\ UNCHANGED <<online, syncInterval, queueVars, expenseVars, histVars>>
  /\ UNCHANGED <<storeVars, retry, backupCall, sideVars>>

\* forcSync(): throws when offline; else awaits processQueue(), which returns
\* at once when a pass is in flight.
ForcSync ==
  /\ IF ~online THEN /\ UNCHANGED <<isProcessing, pass>>
                     /\ settled' = Rejected("forcSync", OfflineSyncError)
     ELSE /\ ProcessQueue(online)
          /\ settled' = IF isProcessing THEN Resolved("forcSync") ELSE Awaiting("forcSync")
  /\ UNCHANGED <<online, syncInterval, timers, queueVars, expenseVars, histVars>>
  /\ UNCHANGED <<storeVars, retry, backupCall, sideVars>>

\* syncQueue.where('retryCount').aboveOrEqual(maxRetries): the ids, in the
\* order of the index (retryCount, then primary key).
RECURSIVE ByRetryCount(_, _)
ByRetryCount(q, ids) ==
  IF ids = {} THEN <<>>
  ELSE LET m == CHOOSE i \in ids : \A j \in ids :
                  \/ q[i].retryCount < q[j].retryCount
                  \/ q[i].retryCount = q[j].retryCount /\ i <= j
       IN <<m>> \o ByRetryCount(q, ids \ {m})
FailedItems(q) == ByRetryCount(q, {i \in DOMAIN q : q[i].retryCount >= maxRetries})

\* syncQueue.update(id, {retryCount: 0, lastError: undefined})
ResetRetryCount(q, id) ==
  IF id \in DOMAIN q THEN [q EXCEPT ![id].retryCount = 0, ![id].lastError = NoError]
  ELSE q

\* retryFailedItems() up to its first await: throws when offline.
RetryFailedItems ==
  /\ retry.pc = "idle"
  /\ IF ~online THEN /\ settled' = Rejected("retryFailedItems", OfflineRetryError)
                     /\ UNCHANGED retry
     ELSE /\ retry' = [pc |-> "read", items |-> <<>>]
          /\ Quiet
  /\ UNCHANGED <<syncVars, queueVars, expenseVars, histVars, storeVars, backupCall, sideVars>>

\* A retryFailedItems() that returns after the resets, without processQueue().
RetryDrains_returning ==
  /\ UNCHANGED <<isProcessing, pass>>
  /\ retry' = IdleRetry
  /\ settled' = Resolved("retryFailedItems")

\* The last statement of retryFailedItems: await this.processQueue()
RetryDrains ==
  /\ ProcessQueue(online)
  /\ retry' = IdleRetry
  /\ settled' = IF isProcessing \/ ~online THEN Resolved("retryFailedItems")
                 ELSE Awaiting("retryFailedItems")

\* retryFailedItems() resumes after the await it is suspended at: the read of
\* the failed items, then one update per item, then processQueue().
RetryStep(oks) ==
  /\ retry.pc # "idle"
  /\ \E ok \in oks :
       CASE ~ok -> /\ retry' = IdleRetry
                   /\ settled' = Rejected("retryFailedItems", StorageError)
                   /\ UNCHANGED <<syncQueue, isProcessing, pass>>
         [] ok /\ retry.pc = "read" ->
              /\ IF FailedItems(syncQueue) = <<>> THEN RetryDrains
                 ELSE /\ retry' = [pc |-> "update", items |-> FailedItems(syncQueue)]
                      /\ Quiet
                      /\ UNCHANGED <<isProcessing, pass>>
              /\ UNCHANGED syncQueue
         [] ok /\ retry.pc = "update" ->
              /\ syncQueue' = ResetRetryCount(syncQueue, Head(retry.items))
              /\ IF Tail(retry.items) = <<>> THEN RetryDrains
                 ELSE /\ retry' = [retry EXCEPT !.items = Tail(retry.items)]
                      /\ Quiet
                      /\ UNCHANGED <<isProcessing, pass>>
  /\ UNCHANGED <<online, syncInterval, timers, nextSyncId, expenseVars, histVars, storeVars, backupCall, sideVars>>

\* destroy()
Destroy ==
  /\ syncInterval' = FALSE
  /\ isProcessing' = FALSE
  /\ UNCHANGED <<online, timers, pass, queueVars, expenseVars, histVars>>
  /\ UNCHANGED <<storeVars, retry, backupCall, sideVars>>
  /\ Quiet

\* clearQueue()
ClearQueue ==
  /\ syncQueue' = EmptyTable
  /\ removal' = Removed(DOMAIN syncQueue, "cleared")
  /\ UNCHANGED <<syncVars, nextSyncId, expenseVars, failures, reported>>
  /\ UNCHANGED <<storeVars, retry, backupCall, sideVars>>
  /\ Quiet

NewEntry(id, operation, type, eid, ts) ==
  [id |-> id, operation |-> operation, entityType |-> type, entityId |-> eid,
   timestamp |-> ts, retryCount |-> 0, lastError |-> NoError]

\* addToQueue(operation, entityType, entityId): the add, then the delayed trigger
AddToQueue(operation, type, eid, ts) ==
  /\ \E ok \in BOOLEAN :
       IF ok
       THEN /\ syncQueue' = With(syncQueue, nextSyncId, NewEntry(nextSyncId, operation, type, eid, ts))
            /\ nextSyncId' = nextSyncId + 1
            /\ IF online /\ ~isProcessing THEN SetTimeout(enqueueDelay)
               ELSE UNCHANGED timers
            /\ settled' = Resolved("addToQueue")
       ELSE /\ UNCHANGED <<queueVars, timers>>
            /\ settled' = Rejected("addToQueue", StorageError)
  /\ UNCHANGED <<online, isProcessing, syncInterval, pass, expenseVars, histVars>>
  /\ UNCHANGED <<storeVars, retry, backupCall, sideVars>>

\* ------------------------------------- ExpenseDatabase: the store's calls
\* initializeDefaultData: the names of defaultCategories, the defaultSettings
DefaultCategories == <<"Food & Dining", "Transportation", "Shopping", "Entertainment",
                       "Healthcare", "Bills & Utilities", "Other">>
DefaultSettings == <<[key |-> "currency", value |-> "USD"],
                     [key |-> "dateFormat", value |-> "MM/dd/yyyy"],
                     [key |-> "theme", value |-> "system"],
                     [key |-> "autoBackup", value |-> "true"],
                     [key |-> "notificationsEnabled", value |-> "true"]>>

\* Table.bulkAdd of records without a key: the key generator numbers them.
BulkAddAuto(table, next, recs) ==
  [k \in (DOMAIN table) \cup (next..(next + Len(recs) - 1)) |->
     IF k \in DOMAIN table THEN table[k] ELSE recs[k - next + 1]]

\* Table.bulkAdd of records that carry their key, outside a transaction: a
\* record whose key exists is rejected (ConstraintError), the others are stored.
BulkAddKeyed(table, recs) ==
  [k \in (DOMAIN table) \cup (DOMAIN recs) |->
     IF k \in DOMAIN table THEN table[k] ELSE recs[k]]
BulkAddRejects(table, recs) == (DOMAIN table) \cap (DOMAIN recs) # {}

\* The key generator after keys were stored explicitly.
Max(a, b) == IF a > b THEN a ELSE b
RECURSIVE MaxOf(_)
MaxOf(S) == IF S = {} THEN 0
            ELSE LET x == CHOOSE y \in S : TRUE IN Max(x, MaxOf(S \ {x}))
NextKey(next, keys) == Max(next, MaxOf(keys) + 1)

\* The expenses 'creating' hook: syncStatus = 'pending'
Creating(rec) == [rec EXCEPT !.syncStatus = "pending"]

NoTable == [k \in {} |-> 0]
NoRead == [expenses |-> NoTable, categories |-> NoTable, settings |-> NoTable]
IdleOp == [kind |-> "none", pc |-> "idle", id |-> 0, arg |-> 0, buf |-> NoRead]
NoneDone == [kind |-> "none", result |-> "none"]
NoSnapshot == [taken |-> FALSE, expenses |-> NoTable, categories |-> NoTable,
               settings |-> NoTable, fileCount |-> 0]
NoPre == [expenses |-> NoTable, categories |-> NoTable, mediaFiles |-> NoTable,
          settings |-> NoTable, syncQueue |-> NoTable]
Tables == [expenses |-> expenses, categories |-> categories, mediaFiles |-> mediaFiles,
           settings |-> settings, syncQueue |-> syncQueue]

\* The first await of each call.
FirstPc(kind) ==
  CASE kind = "addExpense" -> "add"
    [] kind = "updateExpense" -> "update"
    [] kind = "deleteExpense" -> "get"
    [] kind = "addCategory" -> "add"
    [] kind = "updateCategory" -> "update"
    [] kind = "deleteCategory" -> "get"
    [] kind = "addMediaFile" -> "add"
    [] kind = "deleteMediaFile" -> "delete"
    [] kind = "clearAllData" -> "clear"
    [] kind = "restoreBackup" -> "clear"
    [] kind = "createBackup" -> "read"

ExpenseCalls == {"addExpense", "updateExpense", "deleteExpense"}
CategoryCalls == {"addCategory", "updateCategory", "deleteCategory"}
MediaCalls == {"addMediaFile", "deleteMediaFile"}
\* The mutating calls on the entity types a queue entry can name.
MutatingCalls == ExpenseCalls \cup CategoryCalls \cup MediaCalls

\* The operation of the entry an expense call appends.
OperationOf(kind) ==
  CASE kind = "addExpense" -> "create"
    [] kind = "updateExpense" -> "update"
    [] kind = "deleteExpense" -> "delete"

\* A call is made: kind with the key id and the argument arg (the receipt's
\* mediaId of addExpense, the mediaId of the media calls).
StoreCall(kind, id, arg) ==
  /\ op.kind = "none"
  /\ kind = "restoreBackup" => snapshot.taken
  /\ op' = [kind |-> kind, pc |-> FirstPc(kind), id |-> id, arg |-> arg, buf |-> NoRead]
  /\ tally' = [tally EXCEPT !.calls = @ + 1]
  /\ done' = NoneDone
  /\ pre' = IF kind = "restoreBackup" THEN Tables ELSE pre
  /\ UNCHANGED <<syncVars, queueVars, expenseVars, histVars, tableVars, snapshot, retry, backupCall, sideVars>>
  /\ Quiet

\* The call in flight returns, or throws.
Return == /\ op' = IdleOp
          /\ done' = [kind |-> op.kind, result |-> "returned"]
Throw == /\ op' = IdleOp
         /\ done' = [kind |-> op.kind, result |-> "threw"]
Goto(pc) == /\ op' = [op EXCEPT !.pc = pc]
            /\ UNCHANGED done

\* private addToSyncQueue(operation, entityType, entityId)
addToSyncQueue(operation, type, eid, ts) ==
  /\ syncQueue' = With(syncQueue, nextSyncId, NewEntry(nextSyncId, operation, type, eid, ts))
  /\ nextSyncId' = nextSyncId + 1

\* The transaction of clearAllData.
ClearTables ==
  /\ expenses' = NoExpenses
  /\ categories' = NoTable
  /\ mediaFiles' = NoTable
  /\ syncQueue' = EmptyTable
  /\ removal' = Removed(DOMAIN syncQueue, "cleared")

\* History: w expense writes resolved, e entries appended, s calls returned.
Tally(w, e, s) == tally' = [tally EXCEPT !.writes = @ + w, !.enqueued = @ + e,
                                         !.succeeded = @ + s]

\* The last await of the expense calls: await this.addToSyncQueue(...)
EnqueueStep(oks) ==
  /\ \E ok \in oks, ts \in Timestamps :
       IF ok THEN /\ addToSyncQueue(OperationOf(op.kind), "expense", op.id, ts)
                  /\ Tally(0, 1, 1)
                  /\ Return
       ELSE /\ Throw
            /\ UNCHANGED <<queueVars, tally>>
  /\ UNCHANGED <<expenseVars, tableVars, removal>>

\* addExpense(expense): expenses.add, then addToSyncQueue('create', 'expense', id)
addExpense(oks) ==
  CASE op.pc = "add" ->
         /\ \E ok \in oks :
              IF ok THEN /\ expenses' = With(expenses, nextExpenseId,
                                             Creating([syncStatus |-> "", receipt |-> op.arg]))
                         /\ nextExpenseId' = nextExpenseId + 1
                         /\ op' = [op EXCEPT !.pc = "enqueue", !.id = nextExpenseId]
                         /\ Tally(1, 0, 0)
                         /\ UNCHANGED done
              ELSE /\ Throw
                   /\ UNCHANGED <<expenseVars, tally>>
         /\ UNCHANGED <<queueVars, tableVars, removal>>
    [] op.pc = "enqueue" -> EnqueueStep(oks)

\* The expenses 'updating' hook assigns modifications.syncStatus = 'pending'
\* in place and returns nothing. Whether an assignment to the argument
\* reaches the record depends on the Dexie release the build resolves: it
\* does where the hook is handed the working copy of the changes (TRUE), it
\* does not where the hook is handed a computed diff and only its return
\* value is applied (FALSE).
UpdatingHookOutcomes == BOOLEAN
Updating(rec, inPlace) == IF inPlace THEN [rec EXCEPT !.syncStatus = "pending"] ELSE rec

\* updateExpense(id, updates): expenses.update (the 'updating' hook; a
\* missing key changes nothing), then addToSyncQueue
updateExpense(oks) ==
  CASE op.pc = "update" ->
         /\ \E ok \in oks :
              IF ok THEN /\ \E inPlace \in UpdatingHookOutcomes :
                              expenses' = IF op.id \in DOMAIN expenses
                                          THEN [expenses EXCEPT
                                                  ![op.id] = Updating(@, inPlace)]
                                          ELSE expenses
                         /\ Goto("enqueue")
                         /\ Tally(1, 0, 0)
              ELSE /\ Throw
                   /\ UNCHANGED <<expenses, tally>>
         /\ UNCHANGED <<nextExpenseId, queueVars, tableVars, removal>>
    [] op.pc = "enqueue" -> EnqueueStep(oks)

\* mediaFiles.where('mediaId').equals(mediaId).delete()
DeleteMedia(mediaId) ==
  mediaFiles' = [k \in {j \in DOMAIN mediaFiles : mediaFiles[j].mediaId # mediaId}
                   |-> mediaFiles[k]]

\* deleteExpense(id): get, deleteMediaFile of the receipt, expenses.delete,
\* then addToSyncQueue('delete', 'expense', id)
deleteExpense(oks) ==
  CASE op.pc = "get" ->
         /\ \E ok \in oks :
              IF ok THEN Goto(IF op.id \in DOMAIN expenses /\ expenses[op.id].receipt # 0
                              THEN "deleteMedia" ELSE "delete")
              ELSE Throw
         /\ UNCHANGED <<expenseVars, queueVars, tableVars, removal, tally>>
    [] op.pc = "deleteMedia" ->
         /\ \E ok \in oks :
              IF ok THEN /\ DeleteMedia(IF op.id \in DOMAIN expenses
                                        THEN expenses[op.id].receipt ELSE 0)
                         /\ Goto("delete")
              ELSE /\ Throw
                   /\ UNCHANGED mediaFiles
         /\ UNCHANGED <<expenseVars, queueVars, categories, nextCategoryId, nextMediaId,
                        settings, nextSettingId, removal, tally>>
    [] op.pc = "delete" ->
         /\ \E ok \in oks :
              IF ok THEN /\ expenses' = Without(expenses, op.id)
                         /\ Goto("enqueue")
                         /\ Tally(1, 0, 0)
              ELSE /\ Throw
                   /\ UNCHANGED <<expenses, tally>>
         /\ UNCHANGED <<nextExpenseId, queueVars, tableVars, removal>>
    [] op.pc = "enqueue" -> EnqueueStep(oks)

\* addCategory(category): categories.add
addCategory(oks) ==
  /\ \E ok \in oks :
       IF ok THEN /\ categories' = With(categories, nextCategoryId,
                                        [name |-> "Custom", isDefault |-> FALSE])
                  /\ nextCategoryId' = nextCategoryId + 1
                  /\ Tally(0, 0, 1)
                  /\ Return
       ELSE /\ Throw
            /\ UNCHANGED <<categories, nextCategoryId, tally>>
  /\ UNCHANGED <<expenseVars, queueVars, mediaFiles, nextMediaId, settings,
                 nextSettingId, removal>>

\* updateCategory(id, updates): categories.update
updateCategory(oks) ==
  /\ \E ok \in oks :
       IF ok THEN /\ categories' = IF op.id \in DOMAIN categories
                                   THEN [categories EXCEPT ![op.id].name = "Renamed"]
                                   ELSE categories
                  /\ Tally(0, 0, 1)
                  /\ Return
       ELSE /\ Throw
            /\ UNCHANGED <<categories, tally>>
  /\ UNCHANGED <<expenseVars, queueVars, nextCategoryId, mediaFiles, nextMediaId,
                 settings, nextSettingId, removal>>

\* deleteCategory(id): get (a default category throws), the lookup of 'Other'
\* and the reassignment of its expenses (the category of an expense is not a
\* field of the model), then categories.delete
deleteCategory(oks) ==
  /\ \E ok \in oks :
       CASE ~ok -> /\ Throw
                   /\ UNCHANGED <<categories, tally>>
         [] ok /\ op.pc = "get" ->
              /\ IF op.id \in DOMAIN categories /\ categories[op.id].isDefault
                 THEN Throw ELSE Goto("other")
              /\ UNCHANGED <<categories, tally>>
         [] ok /\ op.pc = "other" ->
              /\ Goto(IF \E k \in DOMAIN categories : categories[k].name = "Other"
                      THEN "modify" ELSE "delete")
              /\ UNCHANGED <<categories, tally>>
         [] ok /\ op.pc = "modify" ->
              /\ Goto("delete")
              /\ UNCHANGED <<categories, tally>>
         [] ok /\ op.pc = "delete" ->
              /\ categories' = Without(categories, op.id)
              /\ Tally(0, 0, 1)
              /\ Return
  /\ UNCHANGED <<expenseVars, queueVars, nextCategoryId, mediaFiles, nextMediaId,
                 settings, nextSettingId, removal>>

\* addMediaFile(media): mediaFiles.add
addMediaFile(oks) ==
  /\ \E ok \in oks :
       IF ok THEN /\ mediaFiles' = With(mediaFiles, nextMediaId, [mediaId |-> op.arg])
                  /\ nextMediaId' = nextMediaId + 1
                  /\ Tally(0, 0, 1)
                  /\ Return
       ELSE /\ Throw
            /\ UNCHANGED <<mediaFiles, nextMediaId, tally>>
  /\ UNCHANGED <<expenseVars, queueVars, categories, nextCategoryId, settings,
                 nextSettingId, removal>>

\* deleteMediaFile(mediaId)
deleteMediaFile(oks) ==
  /\ \E ok \in oks :
       IF ok THEN /\ DeleteMedia(op.arg)
                  /\ Tally(0, 0, 1)
                  /\ Return
       ELSE /\ Throw
            /\ UNCHANGED <<mediaFiles, tally>>
  /\ UNCHANGED <<expenseVars, queueVars, categories, nextCategoryId, nextMediaId,
                 settings, nextSettingId, removal>>


\* The records initializeDefaultData adds.
DefaultCategoryRecords == [k \in 1..Len(DefaultCategories) |->
                             [name |-> DefaultCategories[k], isDefault |-> TRUE]]

\* clearAllData(): the transaction that clears expenses, categories, mediaFiles
\* and syncQueue, then initializeDefaultData(); `after` is where the caller
\* continues when it returns.
clearAllData(oks, after) ==
  /\ \E ok \in oks :
       CASE ~ok -> /\ Throw
                   /\ UNCHANGED <<expenses, categories, nextCategoryId, mediaFiles,
                                  settings, nextSettingId, syncQueue, removal>>
         [] ok /\ op.pc = "clear" ->
              /\ ClearTables
              /\ Goto("countCategories")
              /\ UNCHANGED <<nextCategoryId, settings, nextSettingId>>
         [] ok /\ op.pc = "countCategories" ->
              /\ Goto(IF DOMAIN categories = {} THEN "addCategories" ELSE "countSettings")
              /\ UNCHANGED <<expenses, categories, nextCategoryId, mediaFiles,
                             settings, nextSettingId, syncQueue, removal>>
         [] ok /\ op.pc = "addCategories" ->
              /\ categories' = BulkAddAuto(categories, nextCategoryId, DefaultCategoryRecords)
              /\ nextCategoryId' = nextCategoryId + Len(DefaultCategories)
              /\ Goto("countSettings")
              /\ UNCHANGED <<expenses, mediaFiles, settings, nextSettingId, syncQueue, removal>>
         [] ok /\ op.pc = "countSettings" ->
              /\ IF DOMAIN settings = {} THEN Goto("addSettings")
                 ELSE IF after = "return" THEN Return ELSE Goto(after)
              /\ UNCHANGED <<expenses, categories, nextCategoryId, mediaFiles,
                             settings, nextSettingId, syncQueue, removal>>
         [] ok /\ op.pc = "addSettings" ->
              /\ settings' = BulkAddAuto(settings, nextSettingId, DefaultSettings)
              /\ nextSettingId' = nextSettingId + Len(DefaultSettings)
              /\ IF after = "return" THEN Return ELSE Goto(after)
              /\ UNCHANGED <<expenses, categories, nextCategoryId, mediaFiles,
                             syncQueue, removal>>
  /\ UNCHANGED <<nextExpenseId, nextSyncId, nextMediaId, tally>>

\* The steps of clearAllData.
ClearPcs == {"clear", "countCategories", "addCategories", "countSettings", "addSettings"}

\* restoreBackup skips the bulkAdd of an empty array without an await.
AfterCategories == IF DOMAIN snapshot.settings # {} THEN "bulkSettings" ELSE "preferences"
AfterExpenses == IF DOMAIN snapshot.categories # {} THEN "bulkCategories" ELSE AfterCategories
AfterClear == IF DOMAIN snapshot.expenses # {} THEN "bulkExpenses" ELSE AfterExpenses

\* restoreBackup(backup): clearAllData, then the bulkAdd of the expenses, the
\* categories and the settings of the backup, each in a transaction of its
\* own, then the preferences and the app state (kept outside the store).
restoreBackup(oks) ==
  IF op.pc \in ClearPcs THEN clearAllData(oks, AfterClear)
  ELSE
  /\ \E ok \in oks :
       CASE ~ok -> /\ Throw
                   /\ UNCHANGED <<expenseVars, categories, nextCategoryId,
                                  settings, nextSettingId>>
         [] ok /\ op.pc = "bulkExpenses" ->
              LET recs == [k \in DOMAIN snapshot.expenses |-> Creating(snapshot.expenses[k])] IN
              /\ expenses' = BulkAddKeyed(expenses, recs)
              /\ nextExpenseId' = NextKey(nextExpenseId, DOMAIN recs)
              /\ IF BulkAddRejects(expenses, recs) THEN Throw ELSE Goto(AfterExpenses)
              /\ UNCHANGED <<categories, nextCategoryId, settings, nextSettingId>>
         [] ok /\ op.pc = "bulkCategories" ->
              /\ categories' = BulkAddKeyed(categories, snapshot.categories)
              /\ nextCategoryId' = NextKey(nextCategoryId, DOMAIN snapshot.categories)
              /\ IF BulkAddRejects(categories, snapshot.categories)
                 THEN Throw ELSE Goto(AfterCategories)
              /\ UNCHANGED <<expenseVars, settings, nextSettingId>>
         [] ok /\ op.pc = "bulkSettings" ->
              /\ settings' = BulkAddKeyed(settings, snapshot.settings)
              /\ nextSettingId' = NextKey(nextSettingId, DOMAIN snapshot.settings)
              /\ IF BulkAddRejects(settings, snapshot.settings)
                 THEN Throw ELSE Goto("preferences")
              /\ UNCHANGED <<expenseVars, categories, nextCategoryId>>
         [] ok /\ op.pc = "preferences" ->
              /\ Goto("appState")
              /\ UNCHANGED <<expenseVars, categories, nextCategoryId, settings, nextSettingId>>
         [] ok /\ op.pc = "appState" ->
              /\ Return
              /\ UNCHANGED <<expenseVars, categories, nextCategoryId, settings, nextSettingId>>
  /\ UNCHANGED <<queueVars, mediaFiles, nextMediaId, removal, tally>>

\* A createBackup that also stamps the settings it has read.
createBackup_stamping(oks) ==
  /\ \E ok \in oks :
       CASE ~ok -> /\ Throw
                   /\ UNCHANGED <<snapshot, settings>>
         [] ok /\ op.pc = "read" ->
              /\ op' = [op EXCEPT !.pc = "media",
                                  !.buf = [expenses |-> expenses, categories |-> categories,
                                           settings |-> settings]]
              /\ UNCHANGED <<done, snapshot, settings>>
         [] ok /\ op.pc = "media" ->
              /\ snapshot' = [taken |-> TRUE, expenses |-> op.buf.expenses,
                              categories |-> op.buf.categories,
                              settings |-> op.buf.settings,
                              fileCount |-> Cardinality(DOMAIN mediaFiles)]
              /\ settings' = [k \in DOMAIN settings |-> [settings[k] EXCEPT !.value = "stamped"]]
              /\ Return
  /\ UNCHANGED <<expenseVars, queueVars, categories, nextCategoryId, mediaFiles, nextMediaId,
                 nextSettingId, removal, tally>>

\* createBackup(): Promise.all of the reads of expenses, categories and
\* settings, then the read of mediaFiles; returns the BackupData.
createBackup(oks) ==
  /\ \E ok \in oks :
       CASE ~ok -> /\ Throw
                   /\ UNCHANGED snapshot
         [] ok /\ op.pc = "read" ->
              /\ op' = [op EXCEPT !.pc = "media",
                                  !.buf = [expenses |-> expenses, categories |-> categories,
                                           settings |-> settings]]
              /\ UNCHANGED <<done, snapshot>>
         [] ok /\ op.pc = "media" ->
              /\ snapshot' = [taken |-> TRUE, expenses |-> op.buf.expenses,
                              categories |-> op.buf.categories,
                              settings |-> op.buf.settings,
                              fileCount |-> Cardinality(DOMAIN mediaFiles)]
              /\ Return
  /\ UNCHANGED <<expenseVars, queueVars, tableVars, removal, tally>>

\* The call in flight resumes after the await it is suspended at; oks are the
\* outcomes the storage request of the step can have.
StoreStep(oks) ==
  /\ op.kind # "none"
  /\ CASE op.kind = "createBackup" -> createBackup(oks)
       [] OTHER ->
          /\ UNCHANGED snapshot
          /\ CASE op.kind = "addExpense" -> addExpense(oks)
               [] op.kind = "updateExpense" -> updateExpense(oks)
               [] op.kind = "deleteExpense" -> deleteExpense(oks)
               [] op.kind = "addCategory" -> addCategory(oks)
               [] op.kind = "updateCategory" -> updateCategory(oks)
               [] op.kind = "deleteCategory" -> deleteCategory(oks)
               [] op.kind = "addMediaFile" -> addMediaFile(oks)
               [] op.kind = "deleteMediaFile" -> deleteMediaFile(oks)
               [] op.kind = "clearAllData" -> clearAllData(oks, "return")
               [] op.kind = "restoreBackup" -> restoreBackup(oks)
  /\ UNCHANGED <<syncVars, failures, reported, pre, retry, backupCall, sideVars>>
  /\ Quiet


\* -------------------------------------------------------- BackupManager
\* Values of the fields that hold a time: a Date object, the ISO string
\* JSON.stringify writes for it, or null.
Date(t) == [type |-> "Date", t |-> t]
IsoString(t) == [type |-> "string", t |-> t]
Null == [type |-> "null", t |-> 0]

\* Date.prototype.toJSON / toISOString, and new Date(value)
toISOString(v) == IF v.type = "Date" THEN IsoString(v.t) ELSE v
NewDate(v) == Date(v.t)

BACKUP_VERSION == "1.0"
ALGORITHM == "AES-GCM"

\* The BackupData createBackup() builds from the tables it read: every record
\* with its Date fields, and the metadata.
BackupOf(snap, now) ==
  [version |-> BACKUP_VERSION,
   createdAt |-> Date(now),
   expenses |-> [k \in DOMAIN snap.expenses |->
                   [rec |-> snap.expenses[k], date |-> Date(0),
                    createdAt |-> Date(0), updatedAt |-> Date(0)]],
   categories |-> [k \in DOMAIN snap.categories |->
                     [rec |-> snap.categories[k],
                      createdAt |-> Date(0), updatedAt |-> Date(0)]],
   settings |-> [k \in DOMAIN snap.settings |->
                   [rec |-> snap.settings[k], updatedAt |-> Date(0)]],
   dateRange |-> IF DOMAIN snap.expenses = {}
                 THEN [start |-> Null, end |-> Null]
                 ELSE [start |-> Date(0), end |-> Date(0)],
   fileCount |-> snap.fileCount]

NoBackup == [version |-> "", createdAt |-> Null, expenses |-> NoTable, categories |-> NoTable,
             settings |-> NoTable, dateRange |-> [start |-> Null, end |-> Null],
             fileCount |-> 0]

\* The tables restoreBackup() inserts from a BackupData.
SnapshotOf(b) ==
  [taken |-> TRUE,
   expenses |-> [k \in DOMAIN b.expenses |-> b.expenses[k].rec],
   categories |-> [k \in DOMAIN b.categories |-> b.categories[k].rec],
   settings |-> [k \in DOMAIN b.settings |-> b.settings[k].rec],
   fileCount |-> b.fileCount]

\* What JSON.parse reads back from JSON.stringify(b): every Date is a string.
JsonOf(b) ==
  [version |-> b.version,
   createdAt |-> toISOString(b.createdAt),
   expenses |-> [k \in DOMAIN b.expenses |->
                   [rec |-> b.expenses[k].rec,
                    date |-> toISOString(b.expenses[k].date),
                    createdAt |-> toISOString(b.expenses[k].createdAt),
                    updatedAt |-> toISOString(b.expenses[k].updatedAt)]],
   categories |-> [k \in DOMAIN b.categories |->
                     [rec |-> b.categories[k].rec,
                      createdAt |-> toISOString(b.categories[k].createdAt),
                      updatedAt |-> toISOString(b.categories[k].updatedAt)]],
   settings |-> [k \in DOMAIN b.settings |->
                   [rec |-> b.settings[k].rec,
                    updatedAt |-> toISOString(b.settings[k].updatedAt)]],
   dateRange |-> [start |-> toISOString(b.dateRange.start),
                  end |-> toISOString(b.dateRange.end)],
   fileCount |-> b.fileCount]

\* "Convert date strings back to Date objects": createdAt of the backup and
\* date, createdAt, updatedAt of each expense, nothing else.
ReviveDates(b) ==
  [b EXCEPT !.createdAt = NewDate(b.createdAt),
            !.expenses = [k \in DOMAIN b.expenses |->
                            [b.expenses[k] EXCEPT !.date = NewDate(@),
                                                  !.createdAt = NewDate(@),
                                                  !.updatedAt = NewDate(@)]]]

\* Bytes. A byte of a salt or an iv is a number; a byte of an AES-GCM output
\* stands for what was sealed, under which key and iv.
NoText == [kind |-> "none", backup |-> NoBackup]
NoSeal == [password |-> "", salt |-> <<>>, iv |-> <<>>, text |-> NoText]
Raw(n) == [n |-> n, sealed |-> NoSeal]
SealedByte(n, key, iv, text) ==
  [n |-> n, sealed |-> [password |-> key.password, salt |-> key.salt,
                        iv |-> iv, text |-> text]]

SaltLength == 16
IvLength == 12
\* crypto.getRandomValues(new Uint8Array(n)): MaxSeed values of each.
MaxSeed == 2
Salts == {[i \in 1..SaltLength |-> Raw(v)] : v \in 1..MaxSeed}
Ivs == {[i \in 1..IvLength |-> Raw(v)] : v \in 1..MaxSeed}
Passwords == {"pw1", "pw2"}

\* deriveKey(password, salt): PBKDF2 is a function of the two.
deriveKey(password, salt) == [password |-> password, salt |-> salt]

\* crypto.subtle.encrypt: the ciphertext bytes, then the authentication tag.
Encrypt(key, iv, text) == <<SealedByte(1, key, iv, text), SealedByte(2, key, iv, text)>>

\* crypto.subtle.decrypt: the plaintext, if the bytes are what encrypt gave
\* for this key and this iv; an OperationError otherwise.
Decrypt(key, iv, bytes) ==
  IF Len(bytes) > 0 /\ bytes[1].sealed.text # NoText
     /\ bytes = Encrypt(key, iv, bytes[1].sealed.text)
  THEN [ok |-> TRUE, text |-> bytes[1].sealed.text]
  ELSE [ok |-> FALSE, text |-> NoText]

\* Uint8Array.prototype.slice(from, to)
Slice(bytes, from, to) == SubSeq(bytes, from + 1, Min(to, Len(bytes)))

\* btoa / atob: a base64 string is well formed and stands for its bytes, or
\* is not and makes atob throw.
arrayBufferToBase64(bytes) == [wellFormed |-> TRUE, bytes |-> bytes]
MalformedBase64 == [wellFormed |-> FALSE, bytes |-> <<>>]
base64ToArrayBuffer(b64) == b64.bytes

\* JSON.stringify of a BackupData
Stringify(b) == [kind |-> "backup", backup |-> JsonOf(b)]

NoEnvelope == [version |-> "", algorithm |-> "", iv |-> arrayBufferToBase64(<<>>),
               data |-> arrayBufferToBase64(<<>>), createdAt |-> Null]

\* encryptBackup(backup, password), with the salt and the iv it drew
encryptBackup(b, password, salt, iv) ==
  LET key == deriveKey(password, salt)
      encryptedData == Encrypt(key, iv, Stringify(b))
      combined == salt \o encryptedData
  IN [version |-> BACKUP_VERSION, algorithm |-> ALGORITHM,
      iv |-> arrayBufferToBase64(iv), data |-> arrayBufferToBase64(combined),
      createdAt |-> toISOString(b.createdAt)]

\* Error messages: a text and, where the code appends one, the message of
\* the error it caught.
Failure(text, cause) == [text |-> text, cause |-> cause]
NoFailure == Failure("", "")
GenericCryptoError == Failure("Invalid password or corrupted backup file", "")
FailedToDecrypt(cause) == Failure("Failed to decrypt backup: ", cause)
PasswordRequired == Failure("Password required for encrypted backup", "")
InvalidFormat == Failure("Invalid backup file format", "")

\* The message of the DOMException atob throws, and the messages the
\* OperationError of crypto.subtle.decrypt carries, by engine: empty, the
\* WebCrypto wording, or a wording that names the operation.
AtobMessage == "The string to be decoded is not correctly encoded."
UnsupportedMessage == "Unsupported encryption algorithm"
OperationErrorMessages ==
  {"", "The operation failed for an operation-specific reason", "Failed to decrypt"}
\* error.message.includes('decrypt')
IncludesDecrypt(m) == m = "Failed to decrypt"

Resolves(b, decrypted) == [ok |-> TRUE, value |-> b, error |-> NoFailure, decrypted |-> decrypted]
Rejects(e, decrypted) == [ok |-> FALSE, value |-> NoBackup, error |-> e, decrypted |-> decrypted]

\* The catch of decryptBackup
DecryptCatch(m, decrypted) ==
  IF IncludesDecrypt(m) THEN Rejects(GenericCryptoError, decrypted)
  ELSE Rejects(FailedToDecrypt(m), decrypted)

\* decryptBackup(encryptedBackup, password); m is the message the engine
\* gives an OperationError. `decrypted` tells whether crypto.subtle.decrypt
\* was called.
decryptBackup(env, password, m) ==
  IF env.algorithm # ALGORITHM THEN DecryptCatch(UnsupportedMessage, FALSE)
  ELSE IF ~env.iv.wellFormed \/ ~env.data.wellFormed THEN DecryptCatch(AtobMessage, FALSE)
  ELSE LET iv == base64ToArrayBuffer(env.iv)
           combined == base64ToArrayBuffer(env.data)
           salt == Slice(combined, 0, SaltLength)
           encryptedData == Slice(combined, SaltLength, Len(combined))
           key == deriveKey(password, salt)
           plain == Decrypt(key, iv, encryptedData)
       IN IF plain.ok THEN Resolves(ReviveDates(plain.text.backup), TRUE)
          ELSE DecryptCatch(m, TRUE)

\* The content of a file given to importBackup: not JSON, the JSON of a
\* BackupData, or the JSON of an EncryptedBackup.
\* "older" is the JSON of a BackupData written with another BACKUP_VERSION.
FileKinds == {"garbage", "plain", "older", "envelope"}
OlderVersion == "0.9"

\* The inner try of importBackup, before its catch: JSON.parse, the check
\* for an encrypted backup, decryptBackup or the conversion of the dates.
ImportTry(file, text, env, password, m) ==
  CASE file = "garbage" -> Rejects(Failure("Unexpected token", ""), FALSE)
    [] file = "envelope" ->
         IF password = "" THEN Rejects(PasswordRequired, FALSE)
         ELSE decryptBackup(env, password, m)
    [] file \in {"plain", "older"} -> Resolves(ReviveDates(text.backup), FALSE)

\* A catch that also refuses a backup of another version.
ImportCatch_strict(outcome) ==
  IF outcome.ok /\ outcome.value.version = BACKUP_VERSION THEN outcome
  ELSE [outcome EXCEPT !.ok = FALSE, !.value = NoBackup, !.error = InvalidFormat]

\* catch (parseError) { throw new Error('Invalid backup file format') }
ImportCatch(outcome) ==
  IF outcome.ok THEN outcome ELSE [outcome EXCEPT !.error = InvalidFormat]

NoBackupCall ==
  [call |-> "none", password |-> "", plain |-> NoBackup, envelope |-> NoEnvelope,
   damage |-> "none", file |-> "none", arg |-> "", result |-> "none",
   value |-> NoBackup, error |-> NoFailure, decrypted |-> FALSE, warned |-> FALSE]

\* encryptBackup(createBackup's result, password)
EncryptBackup(password, salt, iv) ==
  /\ snapshot.taken
  /\ backupCall' = [NoBackupCall EXCEPT
                      !.call = "encryptBackup", !.password = password, !.arg = password,
                      !.plain = BackupOf(snapshot, 0),
                      !.envelope = encryptBackup(BackupOf(snapshot, 0), password, salt, iv),
                      !.result = "resolved"]
  /\ UNCHANGED <<syncVars, queueVars, expenseVars, histVars, storeVars, retry, sideVars>>
  /\ Quiet

\* The file of an encrypted backup is damaged or edited before it is read.
Damages == {"iv", "data", "ciphertext", "algorithm"}
Damage(kind) ==
  /\ backupCall.envelope # NoEnvelope
  /\ backupCall.damage = "none"
  /\ LET env == backupCall.envelope
         bytes == env.data.bytes
         damaged ==
           CASE kind = "iv" -> [env EXCEPT !.iv = MalformedBase64]
             [] kind = "data" -> [env EXCEPT !.data = MalformedBase64]
             [] kind = "ciphertext" ->
                  [env EXCEPT !.data = arrayBufferToBase64(
                                         [bytes EXCEPT ![Len(bytes)] = Raw(0)])]
             [] kind = "algorithm" -> [env EXCEPT !.algorithm = "AES-CBC"]
     IN backupCall' = [backupCall EXCEPT !.call = "none", !.envelope = damaged,
                                         !.damage = kind, !.result = "none",
                                         !.value = NoBackup, !.error = NoFailure,
                                         !.decrypted = FALSE, !.warned = FALSE]
  /\ UNCHANGED <<syncVars, queueVars, expenseVars, histVars, storeVars, retry, sideVars>>
  /\ Quiet

\* decryptBackup(envelope, password)
DecryptBackup(password, m) ==
  /\ backupCall.envelope # NoEnvelope
  /\ LET out == decryptBackup(backupCall.envelope, password, m)
     IN backupCall' = [backupCall EXCEPT
                         !.call = "decryptBackup", !.file = "none", !.arg = password,
                         !.result = IF out.ok THEN "resolved" ELSE "rejected",
                         !.value = out.value, !.error = out.error,
                         !.decrypted = out.decrypted, !.warned = FALSE]
  /\ UNCHANGED <<syncVars, queueVars, expenseVars, histVars, storeVars, retry, sideVars>>
  /\ Quiet

\* importBackup(file, password), up to the first await of restoreBackup: the
\* reading and the decryption touch nothing but the file content.
ImportBackup(file, password, m) ==
  /\ op.kind = "none"
  /\ tally.calls < MaxCalls
  /\ file \in {"plain", "older"} => snapshot.taken
  /\ file = "envelope" => backupCall.envelope # NoEnvelope
  /\ LET text == CASE file = "plain" -> Stringify(BackupOf(snapshot, 0))
                   [] file = "older" ->
                        Stringify([BackupOf(snapshot, 0) EXCEPT !.version = OlderVersion])
                   [] OTHER -> NoText
         out == ImportCatch(ImportTry(file, text, backupCall.envelope, password, m))
     IN /\ backupCall' = [backupCall EXCEPT
                            !.call = "importBackup", !.file = file, !.arg = password,
                            !.result = IF out.ok THEN "restoring" ELSE "rejected",
                            !.value = out.value, !.error = out.error,
                            !.decrypted = out.decrypted,
                            \* console.warn('Backup version mismatch ...')
                            !.warned = out.ok /\ out.value.version # BACKUP_VERSION]
        /\ IF out.ok
           THEN /\ snapshot' = SnapshotOf(out.value)
                /\ op' = [kind |-> "restoreBackup", pc |-> FirstPc("restoreBackup"),
                          id |-> 0, arg |-> 0, buf |-> NoRead]
                /\ tally' = [tally EXCEPT !.calls = @ + 1]
                /\ done' = NoneDone
                /\ pre' = Tables
           ELSE UNCHANGED callVars
  /\ UNCHANGED <<syncVars, queueVars, expenseVars, histVars, tableVars, retry, sideVars>>
  /\ Quiet

\* ------------------------------------------------------- auto backups
\* The days a backup can be dated: formatDate gives the UTC day of
\* createdAt, and the order of the keys is the order of the days.
MaxDay == 6
Days == 1..MaxDay

\* storeLocalBackup evicts when it finds MaxAutoBackups keys or more, down to
\* KeptOnEvict, before it stores the new one.
MaxAutoBackups == 5
KeptOnEvict == 4

IdleAuto == [pc |-> "idle", key |-> 0, before |-> {}, dels |-> <<>>]

RECURSIVE Sorted(_)
\* backupKeys.sort()
Sorted(keys) ==
  IF keys = {} THEN <<>>
  ELSE LET k == CHOOSE x \in keys : \A y \in keys : x <= y
       IN <<k>> \o Sorted(keys \ {k})

\* An eviction that drops the newest keys instead of the oldest.
Evicted_newest(keys) ==
  IF Cardinality(keys) >= MaxAutoBackups
  THEN SubSeq(Sorted(keys), KeptOnEvict + 1, Cardinality(keys))
  ELSE <<>>

\* The keys storeLocalBackup deletes: for (i = 0; i < length - 4; i++)
Evicted(keys) ==
  IF Cardinality(keys) >= MaxAutoBackups
  THEN SubSeq(Sorted(keys), 1, Cardinality(keys) - KeptOnEvict)
  ELSE <<>>

\* createAutoBackup() when a backup is due, dated day: up to createBackup()
CreateAutoBackup(day) ==
  /\ auto.pc = "idle"
  /\ auto' = [IdleAuto EXCEPT !.pc = "createBackup", !.key = day]
  /\ UNCHANGED <<syncVars, queueVars, expenseVars, histVars, storeVars, retry,
                 backupCall, localBackups, export, instants, setting>>
  /\ Quiet

\* createAutoBackup() resumes after the await it is suspended at:
\* createBackup, then in storeLocalBackup keys(), one del per evicted key
\* and set(backupKey, backup), then setAppStateValue('lastBackupDate').
\* A rejection ends the call in its catch.
AutoStep(oks) ==
  /\ auto.pc # "idle"
  /\ \E ok \in oks :
       CASE ~ok -> /\ auto' = IdleAuto
                   /\ UNCHANGED localBackups
         [] ok /\ auto.pc = "createBackup" ->
              /\ auto' = [auto EXCEPT !.pc = "keys"]
              /\ UNCHANGED localBackups
         [] ok /\ auto.pc = "keys" ->
              /\ auto' = [auto EXCEPT !.before = localBackups,
                                      !.dels = Evicted(localBackups),
                                      !.pc = IF Evicted(localBackups) = <<>>
                                             THEN "set" ELSE "del"]
              /\ UNCHANGED localBackups
         [] ok /\ auto.pc = "del" ->
              /\ localBackups' = localBackups \ {Head(auto.dels)}
              /\ auto' = [auto EXCEPT !.dels = Tail(auto.dels),
                                      !.pc = IF Tail(auto.dels) = <<>>
                                             THEN "set" ELSE "del"]
         [] ok /\ auto.pc = "set" ->
              /\ localBackups' = localBackups \cup {auto.key}
              /\ auto' = [auto EXCEPT !.pc = "lastBackupDate"]
         [] ok /\ auto.pc = "lastBackupDate" ->
              /\ auto' = IdleAuto
              /\ UNCHANGED localBackups
  /\ UNCHANGED <<syncVars, queueVars, expenseVars, histVars, storeVars, retry, backupCall,
                 export, instants, setting>>
  /\ Quiet

\* exportBackup(password?: string): the argument is absent (undefined) or a
\* string, the empty one included.
NoPassword == [given |-> FALSE, value |-> ""]
PasswordArgs == {NoPassword} \cup {[given |-> TRUE, value |-> pw] : pw \in Passwords \cup {""} }

\* if (password): undefined and '' are falsy.
Truthy(arg) == arg.given /\ arg.value # ""

NoFile == [fileName |-> "", text |-> NoText, envelope |-> NoEnvelope, via |-> "none"]
IdleExport == [pc |-> "idle", arg |-> NoPassword, result |-> "none", written |-> NoFile]

\* fileData and fileName of exportBackup, from createBackup's result.
FileOf(b, arg, salt, iv) ==
  IF Truthy(arg)
  THEN [fileName |-> "pew-backup-encrypted", text |-> NoText,
        envelope |-> encryptBackup(b, arg.value, salt, iv), via |-> "none"]
  ELSE [fileName |-> "pew-backup", text |-> Stringify(b), envelope |-> NoEnvelope,
        via |-> "none"]

\* What the save dialog does: window has no showSaveFilePicker, the file is
\* saved through it, the user cancels it (AbortError), or it fails otherwise.
PickerOutcomes == {"absent", "saved", "aborted", "failed"}

\* exportBackup(password) is called: up to its first await, createBackup().
ExportBackup(arg) ==
  /\ export.pc = "idle"
  /\ op.kind = "none"
  /\ op' = [kind |-> "createBackup", pc |-> FirstPc("createBackup"), id |-> 0, arg |-> 0,
            buf |-> NoRead]
  /\ tally' = [tally EXCEPT !.calls = @ + 1]
  /\ done' = NoneDone
  /\ export' = [IdleExport EXCEPT !.pc = "createBackup", !.arg = arg]
  /\ UNCHANGED <<syncVars, queueVars, expenseVars, histVars, tableVars, snapshot, pre, retry,
                 backupCall, localBackups, auto, instants, setting>>
  /\ Quiet

\* exportBackup resumes once createBackup() has settled: it rethrows, or
\* builds the file, offers the save dialog and writes or downloads the file.
ExportStep(salt, iv, picker) ==
  /\ export.pc = "createBackup"
  /\ op.kind = "none"
  /\ IF done.result = "threw"
     THEN export' = [export EXCEPT !.pc = "idle", !.result = "rejected"]
     ELSE LET file == FileOf(BackupOf(snapshot, 0), export.arg, salt, iv)
          IN export' = [export EXCEPT
                          !.pc = "idle", !.result = "resolved",
                          !.written = CASE picker = "saved" -> [file EXCEPT !.via = "picker"]
                                        [] picker = "aborted" -> NoFile
                                        [] OTHER -> [file EXCEPT !.via = "download"]]
  /\ UNCHANGED <<syncVars, queueVars, expenseVars, histVars, storeVars, retry,
                 backupCall, localBackups, auto, instants, setting>>
  /\ Quiet

\* What a backup describes of the Store: the three tables it copies and the
\* number of media files.
StoreOf(e, c, s, m) ==
  [expenses |-> e, categories |-> c, settings |-> s, fileCount |-> Cardinality(DOMAIN m)]
StoreNow == StoreOf(expenses, categories, settings, mediaFiles)
Described(snap) ==
  [expenses |-> snap.expenses, categories |-> snap.categories, settings |-> snap.settings,
   fileCount |-> snap.fileCount]

\* The mutating calls that run beside a createBackup in flight; each has one
\* table request.
BesideCalls == {"addExpense", "addMediaFile", "deleteMediaFile"}

\* While createBackup is suspended at an await, another call of the
\* ExpenseDatabase runs from its call to its return, every request resolving:
\* addExpense (expenses.add, addToSyncQueue), addMediaFile (mediaFiles.add)
\* or deleteMediaFile.
Interleaved(kind) ==
  /\ op.kind = "createBackup"
  /\ tally.calls <= MaxCalls
  /\ CASE kind = "addExpense" ->
            /\ nextSyncId <= MaxSyncId
            /\ expenses' = With(expenses, nextExpenseId,
                                Creating([syncStatus |-> "", receipt |-> 0]))
            /\ nextExpenseId' = nextExpenseId + 1
            /\ \E ts \in Timestamps :
                 addToSyncQueue("create", "expense", nextExpenseId, ts)
            /\ tally' = [tally EXCEPT !.calls = @ + 1, !.writes = @ + 1,
                                      !.enqueued = @ + 1, !.succeeded = @ + 1]
            /\ UNCHANGED <<mediaFiles, nextMediaId>>
       [] kind = "addMediaFile" ->
            /\ mediaFiles' = With(mediaFiles, nextMediaId, [mediaId |-> 1])
            /\ nextMediaId' = nextMediaId + 1
            /\ tally' = [tally EXCEPT !.calls = @ + 1, !.succeeded = @ + 1]
            /\ UNCHANGED <<expenseVars, queueVars>>
       [] kind = "deleteMediaFile" ->
            /\ DeleteMedia(1)
            /\ tally' = [tally EXCEPT !.calls = @ + 1, !.succeeded = @ + 1]
            /\ UNCHANGED <<expenseVars, queueVars, nextMediaId>>
  /\ instants' = instants \cup {StoreNow, StoreOf(expenses', categories, settings, mediaFiles')}
  /\ UNCHANGED <<syncVars, histVars, categories, nextCategoryId, settings, nextSettingId,
                 op, done, snapshot, pre, retry, backupCall, localBackups, auto, export,
                 setting>>
  /\ Quiet

\* ------------------------------------------------------------- settings
\* setSetting calls made in one behaviour, and the calls that can be in
\* flight together.
MaxSets == 3
Setters == 1..2
\* 'theme' has a record from initializeDefaultData, 'language' has none.
SettingKeys == {"theme", "language"}
SettingValues == {"a", "b"}
Undefined == "undefined"

IdleSetter == [pc |-> "idle", key |-> "", value |-> "", existing |-> 0]
IdleSetting == [calls |-> [c \in Setters |-> IdleSetter], made |-> 0,
                last |-> [k \in SettingKeys |-> Undefined]]

\* The ids of the records of a key, and settings.where('key').equals(key)
\* .first(): the index orders equal keys by primary key. 0 stands for none.
IdsOf(key) == {id \in DOMAIN settings : settings[id].key = key}
First(key) == IF IdsOf(key) = {} THEN 0
              ELSE CHOOSE id \in IdsOf(key) : \A other \in IdsOf(key) : id <= other

\* getSetting(key): setting?.value
getSetting(key) == IF First(key) = 0 THEN Undefined ELSE settings[First(key)].value

\* if (existing) settings.update(existing.id, {value, updatedAt}) else
\* settings.add({key, value, updatedAt}); update of a missing id changes nothing.
SettingWrite(c) ==
  LET call == setting.calls[c]
  IN IF call.existing # 0
     THEN /\ settings' = IF call.existing \in DOMAIN settings
                         THEN [settings EXCEPT ![call.existing].value = call.value]
                         ELSE settings
          /\ UNCHANGED nextSettingId
     ELSE /\ settings' = With(settings, nextSettingId,
                               [key |-> call.key, value |-> call.value])
          /\ nextSettingId' = nextSettingId + 1

\* setSetting(key, value) is called: up to its first await.
SetSetting(c, key, value) ==
  /\ setting.calls[c].pc = "idle"
  /\ setting.made < MaxSets
  /\ setting' = [setting EXCEPT !.calls[c] = [IdleSetter EXCEPT !.pc = "first", !.key = key,
                                                                !.value = value],
                                 !.made = @ + 1]
  /\ UNCHANGED <<syncVars, queueVars, expenseVars, histVars, storeVars, retry, backupCall,
                 localBackups, auto, export, instants>>
  /\ Quiet

\* setSetting resumes after the await it is suspended at: the read of the
\* record of the key, then the update or the add. A rejection ends the call.
SetStep(c, oks) ==
  /\ setting.calls[c].pc # "idle"
  /\ \E ok \in oks :
       CASE ~ok -> /\ setting' = [setting EXCEPT !.calls[c] = IdleSetter]
                   /\ UNCHANGED <<settings, nextSettingId>>
         [] ok /\ setting.calls[c].pc = "first" ->
              /\ setting' = [setting EXCEPT !.calls[c].existing = First(setting.calls[c].key),
                                            !.calls[c].pc = "write"]
              /\ UNCHANGED <<settings, nextSettingId>>
         [] ok /\ setting.calls[c].pc = "write" ->
              /\ SettingWrite(c)
              /\ setting' = [setting EXCEPT !.calls[c] = IdleSetter,
                                            !.last[setting.calls[c].key] =
                                               setting.calls[c].value]
  /\ UNCHANGED <<syncVars, queueVars, expenseVars, histVars, categories, nextCategoryId,
                 mediaFiles, nextMediaId, callVars, retry, backupCall,
                 localBackups, auto, export, instants>>
  /\ Quiet

\* ---------------------------------------------------------- specification
QueueInputs == {<<"create", "expense">>, <<"delete", "expense">>,
                <<"update", "category">>}

\* The state after construction: the tables are what an earlier session left
\* (no expense, or expense 1), the queue is empty.
Init ==
  /\ online \in BOOLEAN
  /\ isProcessing = FALSE
  /\ syncInterval = online
  /\ timers = [d \in Delays |-> 0]
  /\ pass = [p \in Slots |-> IdlePass]
  /\ syncQueue = EmptyTable
  /\ nextSyncId = 1
  /\ expenses \in {NoExpenses, [k \in {1} |-> [syncStatus |-> "pending", receipt |-> 0]]}
  /\ nextExpenseId = 2
  /\ failures = [i \in SyncIds |-> 0]
  /\ reported = [i \in SyncIds |-> 0]
  /\ removal = [i \in SyncIds |-> "none"]
  /\ categories = DefaultCategoryRecords
  /\ nextCategoryId = Len(DefaultCategories) + 1
  /\ mediaFiles = NoTable
  /\ nextMediaId = 1
  /\ settings = [k \in 1..Len(DefaultSettings) |-> DefaultSettings[k]]
  /\ nextSettingId = Len(DefaultSettings) + 1
  /\ op = IdleOp
  /\ tally = [calls |-> 0, writes |-> 0, enqueued |-> 0, succeeded |-> 0]
  /\ done = NoneDone
  /\ snapshot = NoSnapshot
  /\ pre = NoPre
  /\ retry = IdleRetry
  /\ settled = NoSettle
  /\ backupCall = NoBackupCall
  /\ localBackups = {}
  /\ auto = IdleAuto
  /\ export = IdleExport
  /\ instants = {}
  /\ setting = IdleSetting

\* The drain triggers: the events and timers that call processQueue, and the
\* passes they start.
DrainTriggers ==
  \/ \E p \in Slots : PassStep(p, BOOLEAN)
  \/ GoOnline
  \/ GoOffline
  \/ AppVisible
  \/ PeriodicSync
  \/ \E d \in Delays : TimerFires(d)

\* The public operations of SyncManager the UI calls, but destroy().
ManualCalls ==
  \/ ForcSync
  \/ RetryFailedItems
  \/ RetryStep(BOOLEAN)
  \/ ClearQueue

Triggers == DrainTriggers \/ ManualCalls

Enqueue(budget, inputs) ==
  /\ nextSyncId <= budget
  /\ \E in \in inputs, ts \in Timestamps : AddToQueue(in[1], in[2], 1, ts)

\* The manager in service with up to MaxSyncId entries: the drain triggers,
\* addToQueue and clearQueue.
Next == DrainTriggers \/ ClearQueue \/ Enqueue(MaxSyncId, QueueInputs)

Spec == Init /\ [][Next]_vars

\* The manager in service with every public operation but destroy().
ManualNext == Triggers \/ Enqueue(MaxFewId, QueueInputs)

ManualSpec == Init /\ [][ManualNext]_vars

\* The manager with destroy() called at any moment.
TeardownNext ==
  \/ DrainTriggers
  \/ ForcSync
  \/ ClearQueue
  \/ Enqueue(MaxFewId, QueueInputs)
  \/ Destroy

TeardownSpec == Init /\ [][TeardownNext]_vars

\* A remote that always rejects while the app stays online and the storage
\* works: no expense exists, so every delivery of an expense entry rejects.
\* The 30 s timer keeps firing, pending timeouts run, and a suspended pass
\* resumes.
RejectingInit == Init /\ online /\ expenses = NoExpenses

\* The entries the always-failing drain is given.
RejectingInputs == {<<"create", "expense">>, <<"update", "expense">>}


RejectingNext ==
  \/ \E p \in Slots : PassStep(p, {TRUE})
  \/ PeriodicSync
  \/ AppVisible
  \/ \E d \in Delays : TimerFires(d)
  \/ ForcSync
  \/ Enqueue(MaxSyncId, RejectingInputs)

RejectingSpec ==
  /\ RejectingInit
  /\ [][RejectingNext]_vars
  /\ WF_vars(\E p \in Slots : PassStep(p, {TRUE}))
  /\ WF_vars(PeriodicSync)
  /\ WF_vars(\E d \in Delays : TimerFires(d))

\* The arguments a call is made with: <<key, mediaId>>. Expense 1 is the one
\* an earlier session may have left, category 7 is the default 'Other',
\* category 8 the first custom one.
CallInputs(kind) ==
  CASE kind = "addExpense" -> {<<0, 0>>, <<0, 1>>}
    [] kind \in {"updateExpense", "deleteExpense"} -> {<<1, 0>>}
    [] kind = "updateCategory" -> {<<8, 0>>}
    [] kind = "deleteCategory" -> {<<7, 0>>, <<8, 0>>}
    [] kind \in MediaCalls -> {<<0, 1>>}
    [] OTHER -> {<<0, 0>>}

\* A call of one of kinds, while fewer than maxCalls were made and, for a
\* call that appends a queue entry, while the key generator is within budget.
Calls(kinds, maxCalls, budget) ==
  /\ tally.calls < maxCalls
  /\ \E kind \in kinds :
       /\ kind \in ExpenseCalls => nextSyncId <= budget
       /\ \E in \in CallInputs(kind) : StoreCall(kind, in[1], in[2])

\* The store alone: its mutating calls, no drain; any storage request may reject.
StoreNext == Calls(MutatingCalls, MaxCalls, MaxCalls) \/ StoreStep(BOOLEAN)

StoreSpec == Init /\ [][StoreNext]_vars

\* The expense calls of the store next to the drain; expense 1 exists.
StoreSyncInit == Init /\ expenses # NoExpenses

\* The calls made next to the drain.
StoreSyncCalls == {"addExpense", "deleteExpense"}


StoreSyncNext ==
  \/ \E p \in Slots : PassStep(p, BOOLEAN)
  \/ GoOnline
  \/ GoOffline
  \/ PeriodicSync
  \/ \E d \in Delays : TimerFires(d)
  \/ ForcSync
  \/ Calls(StoreSyncCalls, MaxCalls, MaxFewId)
  \/ StoreStep(BOOLEAN)

StoreSyncSpec == StoreSyncInit /\ [][StoreSyncNext]_vars

\* The callers of the queue next to the drain, online: addToQueue and
\* deleteExpense enqueue, forcSync and the timers drain; expense 1 exists
\* until it is deleted, and deliveries for it fail from then on.
AbsorbInit == StoreSyncInit /\ online

AbsorbNext ==
  \/ \E p \in Slots : PassStep(p, BOOLEAN)
  \/ PeriodicSync
  \/ \E d \in Delays : TimerFires(d)
  \/ ForcSync
  \/ Enqueue(MaxFewId, {<<"update", "expense">>})
  \/ Calls({"deleteExpense"}, MaxFewCalls, MaxSyncId)
  \/ StoreStep(BOOLEAN)

AbsorbSpec == AbsorbInit /\ [][AbsorbNext]_vars

\* The manager in service while clearAllData() is called (privacy erase).
ClearNext ==
  \/ Triggers
  \/ Enqueue(MaxFewId, QueueInputs)
  \/ Calls({"clearAllData"}, MaxClears, MaxFewId)
  \/ StoreStep(BOOLEAN)

ClearSpec == Init /\ [][ClearNext]_vars

\* The calls made around a backup and its restore.
RestoreCalls == {"addExpense", "deleteExpense", "addCategory", "createBackup", "restoreBackup"}

\* Backup and restore next to the store's calls, on a storage that works:
\* every request resolves unless the store itself rejects it.
RestoreNext ==
  \/ Calls(RestoreCalls, MaxCalls, MaxCalls)
  \/ StoreStep({TRUE})

RestoreSpec == Init /\ [][RestoreNext]_vars

\* The backup manager: createBackup, encryptBackup, a file that may be
\* damaged, decryptBackup and importBackup; storage resolves.
BackupInit == Init /\ online

\* importBackup(file, password?): a password, or none.
ImportPasswords == Passwords \cup {""}


BackupNext ==
  \/ Calls({"createBackup"}, MaxFewCalls, MaxCalls)
  \/ StoreStep({TRUE})
  \/ \E pw \in Passwords, salt \in Salts, iv \in Ivs : EncryptBackup(pw, salt, iv)
  \/ \E kind \in Damages : Damage(kind)
  \/ \E pw \in Passwords, m \in OperationErrorMessages : DecryptBackup(pw, m)
  \/ \E file \in FileKinds, pw \in ImportPasswords, m \in OperationErrorMessages :
       ImportBackup(file, pw, m)

BackupSpec == BackupInit /\ [][BackupNext]_vars

\* exportBackup with and without a password, next to addExpense; any storage
\* request may reject.
ExportNext ==
  \/ tally.calls < MaxCalls /\ \E arg \in PasswordArgs : ExportBackup(arg)
  \/ \E salt \in Salts, iv \in Ivs, picker \in PickerOutcomes : ExportStep(salt, iv, picker)
  \/ Calls({"addExpense"}, MaxCalls, MaxCalls)
  \/ StoreStep(BOOLEAN)

ExportSpec == BackupInit /\ [][ExportNext]_vars

\* One createBackup, with mutating calls that run while it is suspended; the
\* requests of createBackup may reject.
SnapshotNext ==
  \/ Calls({"createBackup"}, MaxFewCalls, MaxCalls)
  \/ StoreStep(BOOLEAN)
  \/ \E kind \in BesideCalls : Interleaved(kind)

SnapshotSpec == BackupInit /\ [][SnapshotNext]_vars

\* setSetting calls, up to two in flight together; any request may reject.
SettingNext ==
  \/ \E c \in Setters, key \in SettingKeys, value \in SettingValues : SetSetting(c, key, value)
  \/ \E c \in Setters : SetStep(c, BOOLEAN)

SettingSpec == Init /\ [][SettingNext]_vars

\* The drain with storage that may reject and deliveries that succeed or
\* fail, online. Every await of a pass settles and every timeout expires,
\* so the continuation of a pass and a pending timer are always run.
GuardInit == Init /\ online

GuardNext ==
  \/ \E p \in Slots : PassStep(p, BOOLEAN)
  \/ PeriodicSync
  \/ \E d \in Delays : TimerFires(d)
  \/ Enqueue(MaxSyncId, {<<"create", "expense">>})

GuardSpec ==
  /\ GuardInit
  /\ [][GuardNext]_vars
  /\ WF_vars(\E p \in Slots : PassStep(p, BOOLEAN))
  /\ WF_vars(\E d \in Delays : TimerFires(d))

\* The calls that set the syncStatus of an expense.
StatusCalls == {"addExpense", "updateExpense"}

\* The user's expense calls next to the drain, online; expense 1 exists and
\* storage resolves, so deliveries succeed.
StatusNext ==
  \/ Calls(StatusCalls, MaxCalls, MaxSyncId)
  \/ StoreStep({TRUE})
  \/ \E p \in Slots : PassStep(p, {TRUE})
  \/ PeriodicSync

StatusSpec == AbsorbInit /\ [][StatusNext]_vars

\* The auto backups: createAutoBackup calls one after the other, dated any
\* day; a request of the side store may reject.
AutoNext == (\E day \in Days : CreateAutoBackup(day)) \/ AutoStep(BOOLEAN)

AutoSpec == Init /\ [][AutoNext]_vars

\* ------------------------------------------------------------------ claims
\* An entry the passes in flight no longer hold.
Settled(i) == \A p \in ActivePasses :
                /\ pass[p].cur.id # i
                /\ \A k \in 1..Len(pass[p].todo) : pass[p].todo[k].id # i
                /\ \A k \in 1..Len(pass[p].errors) : pass[p].errors[k] # i

\* C1: at most one drain pass (processQueue) is executing at any time, in
\* every interleaving of the triggers and of the public operations, destroy()
\* included.
C1_SingleDrainPass == Cardinality(ActivePasses) <= 1

\* C2: an entry whose delivery has failed maxRetries times is removed from the
\* queue and is exactly once in the reported error list (so it cannot be
\* attempted again).
C2_RemovedAtCeiling ==
  \A i \in SyncIds :
    (failures[i] = maxRetries /\ Settled(i))
      => (i \notin DOMAIN syncQueue /\ reported[i] = 1)

\* A pass completes the write of markSyncItemFailed in this step.
FailureRecorded(p) ==
  /\ pass[p].pc = "failwrite"
  /\ pass'[p] # pass[p]
  /\ timers' # timers

\* C3: when the delivery of an entry whose stored retryCount is k < maxRetries
\* fails, the entry stays in the queue with retryCount k + 1 and lastError set
\* to the failure message.
C3_RetryCountIncrement ==
  [][\A p \in Slots :
       (FailureRecorded(p) /\ pass[p].cur.id \in DOMAIN syncQueue
          /\ syncQueue[pass[p].cur.id].retryCount < maxRetries)
       => /\ pass[p].cur.id \in DOMAIN syncQueue'
          /\ syncQueue'[pass[p].cur.id].retryCount
               = syncQueue[pass[p].cur.id].retryCount + 1
          /\ syncQueue'[pass[p].cur.id].lastError = pass[p].err]_vars

\* C4: with the app online and drains repeatedly triggered, an entry whose
\* delivery always fails is eventually removed from the queue, and one
\* abandoned-entry error is reported for it.
C4_EventuallyAbandoned ==
  \A i \in SyncIds :
    (i \in DOMAIN syncQueue) ~> (i \notin DOMAIN syncQueue /\ reported[i] = 1)

NonDecreasing(s) == \A a, b \in 1..Len(s) : a <= b => s[a] <= s[b]

\* C8: within one drain pass the entries are attempted one at a time in
\* non-decreasing timestamp order.
C8_OldestFirst == \A p \in Slots : NonDecreasing(pass[p].log)

\* C8 witness: a pass has attempted two entries of different timestamps, the
\* older of which was enqueued later (has the larger id).
C8_Witness ==
  \E p \in Slots :
    /\ Len(pass[p].log) >= 2
    /\ pass[p].log[1] < pass[p].log[2]
    /\ pass[p].cur.id = 1

\* C5 (as amended): an entry that has left the queue was delivered, abandoned
\* after exhausting its retries, or cleared by clearQueue() or clearAllData();
\* no other step of the subsystem removes an entry.
C5_RemovedOnlyWhenSettledOrCleared ==
  \A i \in SyncIds :
    (i < nextSyncId /\ i \notin DOMAIN syncQueue)
      => removal[i] \in {"delivered", "abandoned", "cleared"}

\* C5 witness: clearAllData() is in flight and its transaction has removed an
\* entry that was neither delivered nor abandoned.
C5_Witness ==
  /\ op.kind = "clearAllData"
  /\ op.pc = "countCategories"
  /\ \E i \in SyncIds : i < nextSyncId /\ removal[i] = "cleared"

\* C5 (as stated): an entry stays in the queue until it was delivered or
\* abandoned; nothing removes it for any other reason.
C5_RemovedOnlyWhenSettled ==
  \A i \in SyncIds :
    (i < nextSyncId /\ i \notin DOMAIN syncQueue)
      => removal[i] \in {"delivered", "abandoned"}

\* C6: after N mutating calls of the store that all returned, with no drain,
\* the queue holds exactly N entries.
C6_OneEntryPerOperation ==
  (op.kind = "none" /\ tally.succeeded = tally.calls)
    => Cardinality(DOMAIN syncQueue) = tally.succeeded

\* C7: the delivery of an entry whose record has been deleted from the store
\* does not fail because the record is absent.
C7_ToleratesMissingTarget ==
  \A p \in Slots : pass[p].err # NotFoundError

\* C9: the record write and the enqueue of the expense calls happen as a unit:
\* when no call is in flight, every expense write that was committed has its
\* queue entry and every queue entry has its committed write.
C9_WriteAndEnqueueAtomic ==
  op.kind = "none" => tally.writes = tally.enqueued

\* The store holds exactly the records of the snapshot (the 'creating' hook
\* regenerates the syncStatus of the expenses).
ReplacedBySnapshot ==
  /\ expenses = [k \in DOMAIN snapshot.expenses |-> Creating(snapshot.expenses[k])]
  /\ categories = snapshot.categories
  /\ settings = snapshot.settings

\* C10: after restoreBackup returned or threw, the store holds exactly the
\* records of the snapshot, or it is what it was before the call.
C10_RestoreAllOrNothing ==
  done.kind = "restoreBackup" => (ReplacedBySnapshot \/ Tables = pre)

\* The steps of restoreBackup that insert the records of the backup.
BulkPcs == {"bulkExpenses", "bulkCategories", "bulkSettings"}

\* C11: createBackup followed immediately by restoreBackup of that snapshot,
\* on a store nothing else has touched, succeeds and leaves the expenses, the
\* categories and the settings equal to those the snapshot was taken of (the
\* syncStatus of an expense is regenerated).
C11_BackupRestoreRoundTrip ==
  (/\ done.kind = "restoreBackup"
   /\ pre.expenses = snapshot.expenses
   /\ pre.categories = snapshot.categories
   /\ pre.settings = snapshot.settings)
    => (done.result = "returned" /\ ReplacedBySnapshot)

\* C12: restoreBackup first clears every table, settings included, then
\* inserts the records of the snapshot, and re-initializes the default data
\* only after that: when it is about to insert its first record, the store is
\* empty.
C12_ClearInsertThenDefaults ==
  (op.kind = "restoreBackup" /\ op.pc \in BulkPcs /\ op.pc = AfterClear)
    => /\ DOMAIN expenses = {}
       /\ DOMAIN categories = {}
       /\ DOMAIN mediaFiles = {}
       /\ DOMAIN settings = {}
       /\ DOMAIN syncQueue = {}

\* C16: forcSync called while offline rejects with its explicit error, starts
\* no pass, leaves the queue unchanged and schedules no later drain.
C16_ForcSyncOfflineRejects ==
  [][(~online /\ settled'.call = "forcSync")
       => /\ settled' = Rejected("forcSync", OfflineSyncError)
          /\ pass' = pass
          /\ isProcessing' = isProcessing
          /\ syncQueue' = syncQueue
          /\ timers' = timers
          /\ syncInterval' = syncInterval]_vars

\* C16 witness: forcSync has just rejected, offline, with an entry queued.
C16_Witness ==
  /\ settled = Rejected("forcSync", OfflineSyncError)
  /\ ~online
  /\ DOMAIN syncQueue # {}
  /\ ActivePasses = {}

\* The retryFailedItems call in flight resumes in this step without a
\* storage error.
RetryResumes == retry.pc # "idle" /\ retry' # retry /\ settled'.result # "rejected"
\* ... and reaches its last statement, the call of processQueue.
RetryCompletes == RetryResumes /\ retry'.pc = "idle"
PassStarted == \E p \in Slots : pass[p].pc = "idle" /\ pass'[p].pc = "fetch"

C18_OfflineStartsNoPass ==
  [][/\ (online /\ ~online') => (~syncInterval' /\ pass' = pass)
     /\ ~online' => \A p \in Slots : pass[p].pc = "idle" => pass'[p].pc = "idle"
     /\ ~online => \A p \in ActivePasses : ENABLED PassStep(p, BOOLEAN)]_vars

\* C18 witness: the app is offline, the periodic timer is stopped, a delayed
\* drain is still pending and a pass that began online is in the middle of
\* an entry.
C18_Witness ==
  /\ ~online
  /\ ~syncInterval
  /\ \E d \in DOMAIN timers : timers[d] > 0
  /\ \E p \in Slots : pass[p].pc \in {"complete", "failread", "failwrite"}

\* C19: the n-th successive failed delivery of an entry (n = 1, 2, 3, that
\* is retryCount 0, 1, 2 before it) schedules a further drain after
\* retryDelay * 2^(n-1): 5 s, 10 s, 20 s; and an expiring backoff timer
\* starts a pass only if the app is online.
C19_BackoffDoubles ==
  [][/\ \A p \in Slots :
          (FailureRecorded(p) /\ failures[pass[p].cur.id] <= maxRetries)
            => LET d == retryDelay * Pow2(failures[pass[p].cur.id] - 1)
               IN timers'[d] = timers[d] + 1
     /\ \A d \in Delays \ {enqueueDelay} :
          (timers'[d] < timers[d] /\ ~online) => pass' = pass]_vars

\* C20: a delivery failure is never thrown to a caller. The step in which a
\* delivery fails settles no promise and touches no store call, in flight or
\* returned; the promise of processQueue always resolves, forcSync called
\* online is never rejected, and no promise is rejected with the error of a
\* delivery.
C20_DeliveryFailureAbsorbed ==
  [][/\ failures' # failures => (settled' = NoSettle /\ op' = op /\ done' = done)
     /\ settled'.call = "processQueue" => settled' = Resolved("processQueue")
     /\ (online /\ settled'.call = "forcSync") => settled'.result # "rejected"
     /\ settled'.result = "rejected" => settled'.error # NotFoundError]_vars

\* C20 witness: deleteExpense has returned, the delivery of a queued entry
\* has failed for the missing record, the entry is still queued with that
\* error, and the pass has just ended with its promise resolved.
C20_Witness ==
  /\ settled = Resolved("processQueue")
  /\ done.kind = "deleteExpense" /\ done.result = "returned"
  /\ \E i \in DOMAIN syncQueue :
       failures[i] > 0 /\ syncQueue[i].lastError = NotFoundError

\* C13: importBackup on the file of an encrypted backup, called without a
\* password, rejects with the 'password required' error, without calling
\* crypto.subtle.decrypt and without changing a table of the store.
C13_PasswordRequiredFirst ==
  [][(/\ backupCall' # backupCall
      /\ backupCall'.call = "importBackup"
      /\ backupCall'.file = "envelope"
      /\ backupCall'.arg = "")
       => /\ backupCall'.result = "rejected"
          /\ backupCall'.error = PasswordRequired
          /\ ~backupCall'.decrypted
          /\ UNCHANGED <<expenses, categories, mediaFiles, settings, syncQueue, op>>]_vars

\* C14: decryptBackup of an envelope of encryptBackup with a different
\* password, or of an envelope whose iv or data field is malformed or whose
\* ciphertext is corrupted, fails with the one generic error, whatever the
\* cause.
C14_OneGenericCryptoError ==
  (/\ backupCall.call = "decryptBackup"
   /\ \/ backupCall.damage = "none" /\ backupCall.arg # backupCall.password
      \/ backupCall.damage \in {"iv", "data", "ciphertext"})
    => (backupCall.result = "rejected" /\ backupCall.error = GenericCryptoError)

\* C15: decryptBackup(encryptBackup(b, password), password) returns b; the
\* data field of the envelope is the 16-byte salt followed by the
\* ciphertext, and splitting it at byte 16 with the envelope's iv decrypts.
C15_EncryptDecryptRoundTrip ==
  (/\ backupCall.call = "decryptBackup"
   /\ backupCall.damage = "none"
   /\ backupCall.arg = backupCall.password)
    => LET combined == base64ToArrayBuffer(backupCall.envelope.data)
           salt == Slice(combined, 0, SaltLength)
           rest == Slice(combined, SaltLength, Len(combined))
       IN /\ salt \in Salts
          /\ Decrypt(deriveKey(backupCall.password, salt),
                     base64ToArrayBuffer(backupCall.envelope.iv), rest).ok
          /\ backupCall.result = "resolved"
          /\ backupCall.value = backupCall.plain

\* C26: the step that ends a drain pass, whatever the pass met (an empty
\* queue, deliveries that succeeded or failed, a storage error), clears
\* isProcessing; and a guard that is set is always cleared later.
C26_GuardReleased ==
  /\ [][\A p \in Slots : (pass[p].pc # "idle" /\ pass'[p].pc = "idle")
                            => ~isProcessing']_vars
  /\ (isProcessing ~> ~isProcessing)

\* C26 witness: a pass in which a delivery failed has just ended and the
\* guard is clear, with the failed entry still queued.
C26_Witness ==
  /\ settled = Resolved("processQueue")
  /\ ~isProcessing
  /\ \E i \in DOMAIN syncQueue : failures[i] > 0

\* The ids of the list a pass still holds: the entry in hand and the rest.
ListIds(ps) == {ps.cur.id} \cup {ps.todo[k].id : k \in 1..Len(ps.todo)}

\* C27: a drain pass works on the list it read at its start. The read takes
\* entries of the queue only; afterwards the list only shrinks, and a step
\* of the pass changes no queue entry but the one in hand, so an entry
\* enqueued in the meantime is neither attempted nor removed nor changed.
C27_PassWorksOnItsSnapshot ==
  [][\A p \in Slots :
       /\ (pass[p].pc = "fetch" /\ pass'[p].pc \notin {"idle", "fetch"})
            => (ListIds(pass'[p]) = DOMAIN syncQueue /\ syncQueue' = syncQueue)
       /\ (pass[p].pc \notin {"idle", "fetch"} /\ pass'[p] # pass[p])
            => /\ pass'[p].pc # "idle" => ListIds(pass'[p]) \subseteq ListIds(pass[p])
               /\ \A i \in DOMAIN syncQueue \ {pass[p].cur.id} :
                    i \in DOMAIN syncQueue' /\ syncQueue'[i] = syncQueue[i]]_vars

\* C27 witness: a pass that has read its list is at its last entry while an
\* entry that is not on the list waits in the queue, untouched.
C27_Witness ==
  \E p \in Slots :
    /\ pass[p].pc \in {"complete", "failwrite"}
    /\ pass[p].todo = <<>>
    /\ \E i \in DOMAIN syncQueue :
         /\ i > pass[p].cur.id
         /\ syncQueue[i].retryCount = 0
         /\ failures[i] = 0

\* C28: a step of a drain pass never adds an entry to the queue: neither
\* the delivery that marks an expense 'synced' nor the record of a success
\* or a failure for an entry that was removed in the meantime.
C28_PassNeverEnqueues ==
  [][(\E p \in Slots : pass[p].pc # "idle" /\ pass'[p] # pass[p])
       => /\ DOMAIN syncQueue' \subseteq DOMAIN syncQueue
          /\ nextSyncId' = nextSyncId]_vars

\* C28 witness: the pass has just ended by recording the failure of its
\* only entry (the backoff timer is armed), which clearQueue had removed;
\* the queue is still empty.
C28_Witness ==
  /\ settled = Resolved("processQueue")
  /\ \E d \in Delays \ {enqueueDelay} : timers[d] > 0
  /\ syncQueue = EmptyTable
  /\ \E i \in SyncIds : removal[i] = "cleared" /\ failures[i] > 0

\* C29: the write of addExpense or updateExpense leaves the expense with
\* syncStatus 'pending'; a syncStatus becomes 'synced' only in the delivery
\* of a create or update entry for that expense; no syncStatus is ever
\* anything but 'pending' or 'synced'.
C29_SyncStatusLifecycle ==
  [][/\ (op.kind = "addExpense" /\ op.pc = "add" /\ op'.pc = "enqueue")
          => expenses'[op'.id].syncStatus = "pending"
     /\ (op.kind = "updateExpense" /\ op.pc = "update" /\ op'.pc = "enqueue"
           /\ op.id \in DOMAIN expenses)
          => expenses'[op.id].syncStatus = "pending"
     /\ \A k \in DOMAIN expenses' :
          /\ expenses'[k].syncStatus \in {"pending", "synced"}
          /\ (/\ expenses'[k].syncStatus = "synced"
              /\ (k \notin DOMAIN expenses \/ expenses[k].syncStatus # "synced"))
               => \E p \in Slots :
                    /\ pass[p].pc = "deliver" /\ pass'[p].pc = "complete"
                    /\ pass[p].cur.entityType = "expense"
                    /\ pass[p].cur.entityId = k
                    /\ pass[p].cur.operation \in {"create", "update"}]_vars

\* C21: the side store never holds more than 5 auto backups; the store of a
\* snapshot under a new key when 5 are held evicts exactly the oldest by
\* key order and keeps the other four.
C21_AtMostFiveAutoBackups ==
  /\ [](Cardinality(localBackups) <= MaxAutoBackups)
  /\ [][(/\ auto.pc = "set" /\ auto'.pc = "lastBackupDate"
         /\ Cardinality(auto.before) = MaxAutoBackups
         /\ auto.key \notin auto.before)
          => LET oldest == CHOOSE k \in auto.before : \A j \in auto.before : k <= j
             IN localBackups' = (auto.before \ {oldest}) \cup {auto.key}]_vars

\* C21 witness: a sixth snapshot was stored under a new key that is not the
\* newest, and five are held.
C21_Witness ==
  /\ auto.pc = "lastBackupDate"
  /\ Cardinality(auto.before) = MaxAutoBackups
  /\ auto.key \notin auto.before
  /\ \E k \in auto.before : k > auto.key
  /\ Cardinality(localBackups) = MaxAutoBackups

\* C22: importBackup of a file that is not JSON rejects and changes no
\* table; importBackup of the JSON of a backup of another version warns and
\* goes on to restoreBackup with that backup.
C22_MalformedFatalVersionWarns ==
  [][(backupCall' # backupCall /\ backupCall'.call = "importBackup")
       => /\ backupCall'.file = "garbage"
               => /\ backupCall'.result = "rejected"
                  /\ UNCHANGED <<expenses, categories, mediaFiles, settings, syncQueue, op>>
          /\ backupCall'.file = "older"
               => /\ backupCall'.warned
                  /\ backupCall'.result = "restoring"
                  /\ op'.kind = "restoreBackup"
                  /\ snapshot' = [snapshot EXCEPT !.taken = TRUE]]_vars

\* C22 witness: a backup of another version was imported with a warning and
\* its restore has run to its end.
C22_Witness ==
  /\ backupCall.call = "importBackup"
  /\ backupCall.file = "older"
  /\ backupCall.warned
  /\ done.kind = "restoreBackup"

\* C23: a file exportBackup wrote in a call that was given a password holds
\* the encrypted envelope, and a file that holds the plaintext backup was
\* written by a call that was given no password argument.
C23_PasswordNeverPlaintext ==
  export.written # NoFile =>
    /\ export.arg.given => /\ export.written.envelope # NoEnvelope
                           /\ export.written.text = NoText
    /\ export.written.text # NoText => ~export.arg.given

\* C24: createBackup only reads: its call and each of its steps, the one that
\* returns and the one that throws included, leave every table of the Store,
\* the queue and the side store as they are.
C24_CreateBackupPureRead ==
  [][(op'.kind = "createBackup" \/ op.kind = "createBackup") /\ op' # op
       => UNCHANGED <<expenses, nextExpenseId, categories, nextCategoryId, mediaFiles,
                      nextMediaId, settings, nextSettingId, syncQueue, nextSyncId,
                      localBackups>>]_vars

\* C24 witness: a createBackup has returned a backup of a Store that holds
\* expenses and media files.
C24_Witness ==
  /\ done = [kind |-> "createBackup", result |-> "returned"]
  /\ snapshot.taken
  /\ snapshot.expenses # NoTable
  /\ snapshot.fileCount > 0

\* C25: the backup createBackup returned describes the Store as it was at one
\* instant during the call: its records and its file count are those of one
\* of the contents the Store had between the call and the return.
C25_SnapshotPointInTime ==
  (done = [kind |-> "createBackup", result |-> "returned"])
    => Described(snapshot) \in instants \cup {StoreNow}

\* C30: the settings table holds at most one record per key and, once a
\* setSetting for a key has completed, getSetting of the key returns the
\* value of the setSetting that completed last.
C30_OneRecordPerKey ==
  \A key \in SettingKeys :
    /\ Cardinality(IdsOf(key)) <= 1
    /\ setting.last[key] # Undefined => getSetting(key) = setting.last[key]
====
